---- MODULE Spec2Model ----
(***************************************************************************)
(* argz: binding a list of command-line tokens to the parameters of a      *)
(* registered route (src/argz.py).                                         *)
(*                                                                         *)
(* Python strings are sequences of one-character strings, so that          *)
(* startswith, slicing, split and int() are computed character by          *)
(* character.  Python values are tagged records [t, v].                    *)
(***************************************************************************)
EXTENDS Integers, Sequences, FiniteSets, TLC

VARIABLES
    py,           \* major version of the interpreter running the module (2 or 3)
    route,        \* the module-level TargetList: a sequence of Route records
    tokens,       \* the tokens the caller draws its argument lists from
    args,         \* the caller's list handed to parse()
    ret,          \* what the last parse() call returned to the caller
    err,          \* the exception the last parse() call ended with (None if none)
    prev,         \* what the caller saw of its previous parse() of the same list, which
                  \* it is parsing again: [ret, err]; Unbound when it is not doing so
    pc,           \* "idle": no call running; "loop": inside Route.__call__;
                  \* "done": parse() has ended and the caller holds its result
    cur,          \* index in route of the Route being called
    parts,        \* Route.__call__: the tokens not yet consumed
    leftover,     \* Route.__call__: names of the Args not yet bound, in order
    parsed_dict   \* Route.__call__: name -> parsed value

vars == <<py, route, tokens, args, ret, err, prev, pc, cur, parts, leftover, parsed_dict>>

-----------------------------------------------------------------------------
(* Bounds of the model *)

MaxTokens == 3        \* longest argument list handed to parse()
MaxCollected == 2     \* parse() is not called again once a collector holds this many entries

-----------------------------------------------------------------------------
(* Python values *)

None == [t |-> "none"]
VStr(s) == [t |-> "str", v |-> s]
VInt(n) == [t |-> "int", v |-> n]
VBool(b) == [t |-> "bool", v |-> b]
VList(l) == [t |-> "list", v |-> l]
VDict(d) == [t |-> "dict", v |-> d]
Callable(f) == [t |-> "callable", v |-> f]
Unbound == [t |-> "unbound"]

EmptyMap == [n \in {} |-> None]

\* bool(x) / truthiness of a value
Truthy(x) ==
    CASE x.t = "none" -> FALSE
      [] x.t = "bool" -> x.v
      [] x.t = "int"  -> x.v # 0
      [] x.t = "str"  -> Len(x.v) > 0
      [] x.t = "list" -> Len(x.v) > 0
      [] x.t = "dict" -> DOMAIN x.v # {}
      [] x.t = "callable" -> TRUE

-----------------------------------------------------------------------------
(* Python string operations *)

StartsWith(s, pre) == Len(s) >= Len(pre) /\ SubSeq(s, 1, Len(pre)) = pre

\* s[n:]
Drop(s, n) == SubSeq(s, n + 1, Len(s))

Digits == {"0", "1", "2", "3", "4", "5", "6", "7", "8", "9"}

DigitVal(c) ==
    CASE c = "0" -> 0 [] c = "1" -> 1 [] c = "2" -> 2 [] c = "3" -> 3 [] c = "4" -> 4
      [] c = "5" -> 5 [] c = "6" -> 6 [] c = "7" -> 7 [] c = "8" -> 8 [] c = "9" -> 9

DigitChar(n) == <<"0", "1", "2", "3", "4", "5", "6", "7", "8", "9">>[n + 1]

AllDigits(s) == Len(s) > 0 /\ \A i \in 1..Len(s) : s[i] \in Digits

RECURSIVE DigitsVal(_)
DigitsVal(s) ==
    IF s = <<>> THEN 0
    ELSE 10 * DigitsVal(SubSeq(s, 1, Len(s) - 1)) + DigitVal(s[Len(s)])

\* whether int(s) accepts the string s
IsIntLiteral(s) ==
    IF s # <<>> /\ s[1] \in {"-", "+"} THEN AllDigits(Tail(s)) ELSE AllDigits(s)

\* int(s) for an accepted string
IntOfStr(s) ==
    IF s[1] = "-" THEN 0 - DigitsVal(Tail(s))
    ELSE IF s[1] = "+" THEN DigitsVal(Tail(s))
    ELSE DigitsVal(s)

RECURSIVE NatStr(_)
NatStr(n) == IF n < 10 THEN <<DigitChar(n)>> ELSE NatStr(n \div 10) \o <<DigitChar(n % 10)>>

\* str(n) for an integer n
StrOfInt(n) == IF n < 0 THEN <<"-">> \o NatStr(0 - n) ELSE NatStr(n)

\* position of the first occurrence of sep in s at or after i, 0 if none
RECURSIVE Find(_, _, _)
Find(s, sep, i) ==
    IF i + Len(sep) - 1 > Len(s) THEN 0
    ELSE IF SubSeq(s, i, i + Len(sep) - 1) = sep THEN i
    ELSE Find(s, sep, i + 1)

\* s.split(sep) for a non-empty separator
RECURSIVE Split(_, _)
Split(s, sep) ==
    LET i == Find(s, sep, 1) IN
    IF i = 0 THEN <<s>>
    ELSE <<SubSeq(s, 1, i - 1)>> \o Split(Drop(s, i + Len(sep) - 1), sep)

LowerChar(c) == CASE c = "H" -> "h" [] OTHER -> c

\* s.lower()
Lower(s) == [i \in 1..Len(s) |-> LowerChar(s[i])]

-----------------------------------------------------------------------------
(* Exceptions.  cls is the Python class, kind tells the raise statement,   *)
(* name the argument (or route) it is about.                               *)

Exc(cls, kind, name) == [cls |-> cls, kind |-> kind, name |-> name]

\* the exception classes parse() catches and turns into a None return
CaughtClasses ==
    {"RequestHelpError", "MissingRouteError", "ArgumentMissingError", "ArgumentRejectedError"}

-----------------------------------------------------------------------------
(* The callables used as adapters and validators *)

Msg == <<"m", "s", "g">>

Returned(v) == [ok |-> TRUE, v |-> v]
Raised(m) == [ok |-> FALSE, message |-> m]

\* int(x)
CallInt(x) ==
    CASE x.t = "str"  -> IF IsIntLiteral(x.v) THEN Returned(VInt(IntOfStr(x.v))) ELSE Raised(Msg)
      [] x.t = "int"  -> Returned(x)
      [] x.t = "bool" -> Returned(VInt(IF x.v THEN 1 ELSE 0))
      [] OTHER        -> Raised(Msg)

\* str(x)
CallStr(x) ==
    CASE x.t = "str"  -> Returned(x)
      [] x.t = "int"  -> Returned(VStr(StrOfInt(x.v)))
      [] x.t = "bool" -> Returned(VStr(IF x.v THEN <<"T", "r", "u", "e">>
                                              ELSE <<"F", "a", "l", "s", "e">>))
      [] x.t = "none" -> Returned(VStr(<<"N", "o", "n", "e">>))

\* len(x)
CallLen(x) ==
    CASE x.t \in {"str", "list"} -> Returned(VInt(Len(x.v)))
      [] x.t = "dict"            -> Returned(VInt(Cardinality(DOMAIN x.v)))
      [] OTHER                   -> Raised(Msg)

\* list(x), for x other than a dict
CallList(x) ==
    CASE x.t = "list" -> Returned(x)
      [] x.t = "str"  -> Returned(VList([i \in 1..Len(x.v) |-> VStr(<<x.v[i]>>)]))
      [] x.t \in {"int", "bool", "none"} -> Raised(Msg)

\* dict(x), for x other than a list
CallDict(x) ==
    CASE x.t = "dict" -> Returned(x)
      [] x.t = "str"  -> IF x.v = <<>> THEN Returned(VDict(EmptyMap)) ELSE Raised(Msg)
      [] x.t \in {"int", "bool", "none"} -> Raised(Msg)

\* f(x) for a callable f: a value returned or an exception raised with a message
CallFn(f, x) ==
    CASE f = "int"  -> CallInt(x)
      [] f = "bool" -> Returned(VBool(Truthy(x)))
      [] f = "str"  -> CallStr(x)
      [] f = "len"  -> CallLen(x)
      [] f = "list" -> CallList(x)
      [] f = "dict" -> CallDict(x)

\* the regex string '[0-9]+'
PatDigits == <<"[", "0", "-", "9", "]", "+">>

\* re.compile(pattern).match(x): a match object (truthy) or None; raises on a non-string
ReMatch(pattern, x) ==
    IF x.t # "str" THEN Raised(Msg)
    ELSE CASE pattern = PatDigits ->
                Returned(IF x.v # <<>> /\ x.v[1] \in Digits THEN VBool(TRUE) ELSE None)

\* x in container, for a dict container: raises on an unhashable x
Contains(container, x) ==
    IF x.t \in {"list", "dict"} THEN Raised(Msg)
    ELSE Returned(VBool(x.t = "str" /\ x.v \in DOMAIN container.v))

-----------------------------------------------------------------------------
(* class Arg *)

\* Arg.__init__ (isswitch is the property Switcharg overrides)
ArgInit(name) ==
    [name |-> name, required |-> TRUE, isswitch |-> FALSE, fallback |-> None,
     split |-> None, validator |-> None, adapter |-> None, min |-> None, max |-> None,
     default |-> None]

\* Switcharg(name)
SwitchargInit(name) == [ArgInit(name) EXCEPT !.isswitch = TRUE]

\* the fallback setter, for a string v
SetFallback(a, v) == [a EXCEPT !.fallback = v, !.required = FALSE]

\* the default setter
SetDefault(a, v) == [a EXCEPT !.default = v, !.required = FALSE]

\* Arg._get_validator, applied: val(p), or None when there is no validator
HasValidator(a) == Truthy(a.validator)

CallValidator(a, p) ==
    CASE a.validator.t = "callable" -> CallFn(a.validator.v, p)
      [] a.validator.t = "str"      -> ReMatch(a.validator.v, p)
      [] OTHER                      -> Contains(a.validator, p)

\* Arg._get_adapters
GetAdapters(a) ==
    IF a.adapter.t = "callable" THEN <<a.adapter.v>>
    ELSE IF Truthy(a.adapter) THEN a.adapter.v ELSE <<>>

\* the adapters applied from the last of the list to the first
RECURSIVE AdaptersRightToLeft(_, _, _)
AdaptersRightToLeft(adapters, i, p) ==
    IF i > Len(adapters) THEN Returned(p)
    ELSE LET r == CallFn(adapters[Len(adapters) + 1 - i], p) IN
         IF r.ok THEN AdaptersRightToLeft(adapters, i + 1, r.v) ELSE r

\* the adapter loop of Arg._try_parsing on one part
RECURSIVE ApplyAdapters(_, _, _)
ApplyAdapters(adapters, i, p) ==
    IF i > Len(adapters) THEN Returned(p)
    ELSE LET r == CallFn(adapters[i], p) IN
         IF r.ok THEN ApplyAdapters(adapters, i + 1, r.v) ELSE r

\* val(p) in Arg._try_parsing; Unbound stands for "no validator, nothing called"
ValidatorCall(a, p) == IF HasValidator(a) THEN CallValidator(a, p) ELSE Returned(Unbound)

\* the body of the for loop with the adapter chain looked at before the validator
TryPartAdaptsFirst(a, pyv, r, called, adapted) ==
    IF ~adapted.ok
      THEN [exc |-> IF pyv = 3 THEN Exc("AttributeError", "message", a.name)
                    ELSE Exc("ArgumentRejectedError", "adapter", a.name),
            r |-> r, v |-> None]
    ELSE IF HasValidator(a) /\ ~Truthy(IF called.ok THEN called.v ELSE r)
      THEN [exc |-> Exc("ArgumentRejectedError", "validation", a.name), r |-> r, v |-> None]
    ELSE [exc |-> None, r |-> IF called.ok THEN called.v ELSE r, v |-> adapted.v]

\* The body of the for loop of Arg._try_parsing on one part: called is what val(p)
\* did, adapted what the adapter chain did, r the local that holds the last value
\* the validator returned.  Gives the exception raised, the new r and the new part.
TryPart(a, pyv, r, called, adapted) ==
    IF HasValidator(a) /\ ~called.ok /\ pyv = 3
      \* e.message does not exist on a built-in exception under Python 3
      THEN [exc |-> Exc("AttributeError", "message", a.name), r |-> r, v |-> None]
    ELSE IF HasValidator(a) /\ ~called.ok /\ called.message # <<>>
      THEN [exc |-> Exc("ArgumentRejectedError", "validation", a.name), r |-> r, v |-> None]
    ELSE IF HasValidator(a) /\ ~called.ok /\ r = Unbound
      THEN [exc |-> Exc("UnboundLocalError", "r", a.name), r |-> r, v |-> None]
    ELSE IF HasValidator(a) /\ ~Truthy(IF called.ok THEN called.v ELSE r)
      THEN [exc |-> Exc("ArgumentRejectedError", "validation", a.name), r |-> r, v |-> None]
    ELSE IF ~adapted.ok
      THEN [exc |-> IF pyv = 3 THEN Exc("AttributeError", "message", a.name)
                    ELSE Exc("ArgumentRejectedError", "adapter", a.name),
            r |-> r, v |-> None]
    ELSE [exc |-> None, r |-> IF called.ok THEN called.v ELSE r, v |-> adapted.v]

\* Arg._try_parsing from part i on: [exc, v], v the list oparts
RECURSIVE TryParsingFrom(_, _, _, _, _, _)
TryParsingNext(a, pyv, ps, i, oparts, done) ==
    IF done.exc # None THEN [exc |-> done.exc, v |-> oparts]
    ELSE TryParsingFrom(a, pyv, ps, i + 1, done.r, Append(oparts, done.v))

TryParsingFrom(a, pyv, ps, i, r, oparts) ==
    IF i > Len(ps) THEN [exc |-> None, v |-> oparts]
    ELSE TryParsingNext(a, pyv, ps, i, oparts,
                        TryPart(a, pyv, r, ValidatorCall(a, ps[i]),
                                ApplyAdapters(GetAdapters(a), 1, ps[i])))

\* Arg._try_parsing
TryParsing(a, pyv, ps) == TryParsingFrom(a, pyv, ps, 1, Unbound, <<>>)

\* v < bound and v > bound for an int bound.  Python 3 raises TypeError when the
\* types are not comparable; Python 2 orders None below numbers below the rest.
Numeric(x) == x.t \in {"int", "bool"}
NumVal(x) == IF x.t = "bool" THEN (IF x.v THEN 1 ELSE 0) ELSE x.v
Comparable(x) == Numeric(x)
LessThan(x, bound) == IF Numeric(x) THEN NumVal(x) < NumVal(bound) ELSE x.t = "none"
GreaterThan(x, bound) == IF Numeric(x) THEN NumVal(x) > NumVal(bound) ELSE x.t # "none"

\* bounds tested for truth (if self.min and ...), so that a bound of 0 is skipped
CheckMinMaxSkipsZero(a, pyv, v) ==
    IF Truthy(a.min) /\ pyv = 3 /\ ~Comparable(v)
      THEN Exc("TypeError", "min", a.name)
    ELSE IF Truthy(a.min) /\ LessThan(v, a.min)
      THEN Exc("ArgumentRejectedError", "min", a.name)
    ELSE IF Truthy(a.max) /\ pyv = 3 /\ ~Comparable(v)
      THEN Exc("TypeError", "max", a.name)
    ELSE IF Truthy(a.max) /\ GreaterThan(v, a.max)
      THEN Exc("ArgumentRejectedError", "max", a.name)
    ELSE None

\* bounds that exclude the values equal to them
CheckMinMaxExclusive(a, pyv, v) ==
    IF a.min # None /\ pyv = 3 /\ ~Comparable(v)
      THEN Exc("TypeError", "min", a.name)
    ELSE IF a.min # None /\ ~GreaterThan(v, a.min)
      THEN Exc("ArgumentRejectedError", "min", a.name)
    ELSE IF a.max # None /\ pyv = 3 /\ ~Comparable(v)
      THEN Exc("TypeError", "max", a.name)
    ELSE IF a.max # None /\ ~LessThan(v, a.max)
      THEN Exc("ArgumentRejectedError", "max", a.name)
    ELSE None

\* Arg._check_min_max: the exception raised, or None
CheckMinMax(a, pyv, v) ==
    IF a.min # None /\ pyv = 3 /\ ~Comparable(v)
      THEN Exc("TypeError", "min", a.name)
    ELSE IF a.min # None /\ LessThan(v, a.min)
      THEN Exc("ArgumentRejectedError", "min", a.name)
    ELSE IF a.max # None /\ pyv = 3 /\ ~Comparable(v)
      THEN Exc("TypeError", "max", a.name)
    ELSE IF a.max # None /\ GreaterThan(v, a.max)
      THEN Exc("ArgumentRejectedError", "max", a.name)
    ELSE None

StrList(l) == [i \in 1..Len(l) |-> VStr(l[i])]

\* line 582: parts
SplitParts(a, argv) ==
    IF Truthy(a.split) THEN StrList(Split(argv, a.split.v)) ELSE <<VStr(argv)>>

\* lines 587-592: unpack the list of one item and check it against min/max
Unpacked(v, exc) == [exc |-> exc, v |-> IF exc = None THEN v ELSE None]

\* the number of parts checked only once validator and adapters have run
ArgParsePartsChecksLast(a, pyv, ps, tried) ==
    IF tried.exc # None THEN [exc |-> tried.exc, v |-> None]
    ELSE IF Truthy(a.split)
      THEN Unpacked(VList(tried.v), CheckMinMax(a, pyv, VInt(Len(ps))))
    ELSE Unpacked(tried.v[1], CheckMinMax(a, pyv, tried.v[1]))

\* lines 583-592, given the parts and what _try_parsing made of them
ArgParseParts(a, pyv, ps, tried) ==
    IF Truthy(a.split) /\ CheckMinMax(a, pyv, VInt(Len(ps))) # None
      THEN [exc |-> CheckMinMax(a, pyv, VInt(Len(ps))), v |-> None]
    ELSE IF tried.exc # None THEN [exc |-> tried.exc, v |-> None]
    ELSE IF Truthy(a.split) THEN [exc |-> None, v |-> VList(tried.v)]
    ELSE Unpacked(tried.v[1], CheckMinMax(a, pyv, tried.v[1]))

\* Arg.parse(argv) for a string argv: [exc, v]
ArgParse(a, pyv, argv) ==
    ArgParseParts(a, pyv, SplitParts(a, argv), TryParsing(a, pyv, SplitParts(a, argv)))

\* lines 625-628 / 656-659: the result must be of the collection's type
CollectorChecked(a, held, tried) ==
    IF tried.exc # None THEN [exc |-> tried.exc, v |-> None]
    ELSE IF tried.v[1].t # held.t THEN [exc |-> Exc("AssertionError", "type", a.name), v |-> None]
    ELSE [exc |-> None, v |-> tried.v[1]]

\* CollectorParse, were the entries of a list collected put through _try_parsing
\* one by one
CollectorParsePerEntry(a, pyv, held) ==
    IF held.t = "list"
    THEN [exc |-> TryParsing(a, pyv, held.v).exc, v |-> VList(TryParsing(a, pyv, held.v).v)]
    ELSE CollectorChecked(a, held, TryParsing(a, pyv, <<held>>))

\* Varargs.parse / Kwargs.parse: the whole collection goes through _try_parsing
\* as one part
CollectorParse(a, pyv, held) == CollectorChecked(a, held, TryParsing(a, pyv, <<held>>))

-----------------------------------------------------------------------------
(* class Route *)

SUPPORTED_INFERRED_ADAPTERS == {"bool", "str", "int"}

\* RouteInitArg, were a parameter with a boolean default left a plain Arg
RouteInitArgNoSwitch(argnames, defaults, i) ==
    LET defaults_start == Len(argnames) - Len(defaults)
        dflt == defaults[i - defaults_start]
    IN
    IF i <= defaults_start THEN ArgInit(argnames[i])
    ELSE IF dflt.t \in {"bool", "str", "int"}
      THEN [SetDefault(ArgInit(argnames[i]), dflt) EXCEPT !.adapter = Callable(dflt.t)]
    ELSE SetDefault(ArgInit(argnames[i]), dflt)

\* RouteInitArg, were a parameter without declared default given the adapter int
RouteInitArgAdaptsRequired(argnames, defaults, i) ==
    LET defaults_start == Len(argnames) - Len(defaults)
        an == argnames[i]
        dflt == defaults[i - defaults_start]
        inferred == dflt.t \in {"bool", "str", "int"}
    IN
    IF i <= defaults_start THEN [ArgInit(an) EXCEPT !.adapter = Callable("int")]
    ELSE IF inferred /\ dflt.t = "bool"
      THEN [SetDefault(SwitchargInit(an), dflt) EXCEPT !.adapter = Callable(dflt.t)]
    ELSE IF inferred THEN [SetDefault(ArgInit(an), dflt) EXCEPT !.adapter = Callable(dflt.t)]
    ELSE SetDefault(ArgInit(an), dflt)

\* the Arg built for the i-th formal parameter by the loop of Route.__init__;
\* defaults are the declared defaults of the last Len(defaults) parameters
RouteInitArg(argnames, defaults, i) ==
    LET defaults_start == Len(argnames) - Len(defaults)
        an == argnames[i]
        arg == ArgInit(an)
        dflt == defaults[i - defaults_start]
        inferred == dflt.t \in SUPPORTED_INFERRED_ADAPTERS
        adapter == Callable(dflt.t)
    IN
    IF i <= defaults_start THEN arg
    ELSE IF inferred /\ adapter = Callable("bool")
      THEN [SetDefault(SwitchargInit(an), dflt) EXCEPT !.adapter = adapter]
    ELSE IF inferred THEN [SetDefault(arg, dflt) EXCEPT !.adapter = adapter]
    ELSE SetDefault(arg, dflt)

\* Route.__init__ for a function name(argnames..., *varargs, **keywords); varargs and
\* keywords are the collectors' names, or None when the function has none
RouteInit(name, argnames, defaults, varargs, keywords) ==
    [name |-> name,
     args |-> [i \in 1..Len(argnames) |-> RouteInitArg(argnames, defaults, i)],
     varargs |-> IF varargs = None THEN None
                 ELSE [t |-> "Varargs", arg |-> ArgInit(varargs.v), held |-> <<>>],
     kwargs |-> IF keywords = None THEN None
                ELSE [t |-> "Kwargs", arg |-> ArgInit(keywords.v), held |-> EmptyMap]]

\* the names of the declared parameters, in declaration order (self.__args.keys())
Names(rt) == [i \in 1..Len(rt.args) |-> rt.args[i].name]
NameSet(rt) == {rt.args[i].name : i \in 1..Len(rt.args)}

\* names.index(n) + 1
IndexOf(rt, n) == CHOOSE i \in 1..Len(rt.args) : rt.args[i].name = n

\* self.__args[n]
ArgOf(rt, n) == rt.args[IndexOf(rt, n)]

\* leftover.remove(t_arg)
Remove(seq, n) ==
    LET i == CHOOSE j \in 1..Len(seq) : seq[j] = n /\ \A k \in 1..(j - 1) : seq[k] # n
    IN SubSeq(seq, 1, i - 1) \o SubSeq(seq, i + 1, Len(seq))

InSeq(seq, n) == \E i \in 1..Len(seq) : seq[i] = n

\* the state of a running Route.__call__: the route (with its collectors), the
\* locals parts, leftover and parsed_dict, and the exception raised, if any
Frame(rt, ps) ==
    [rt |-> rt, parts |-> ps, leftover |-> Names(rt), parsed_dict |-> EmptyMap, exc |-> None]

Raise(f, cls, kind, name) == [f EXCEPT !.exc = Exc(cls, kind, name)]

\* lines 835-839: store what t_arg.parse(argv) gave under argn
Store(f, argn, parsed) ==
    IF parsed.exc # None THEN [f EXCEPT !.exc = parsed.exc]
    ELSE IF argn \in DOMAIN f.parsed_dict THEN Raise(f, "AssertionError", "already_in", argn)
    ELSE [f EXCEPT !.parsed_dict = @ @@ (argn :> parsed.v)]

\* lines 833-839: parse argv for t_arg and store it under argn
ParseAndStore(f, pyv, argn, argv) ==
    Store(f, argn, ArgParse(ArgOf(f.rt, argn), pyv, argv))

\* SwitchValue, were the switch bound to its default
SwitchValueDefault(a) == a.default

\* the value a switch supplied as -name is bound to (line 824)
SwitchValue(a) == VBool(~Truthy(a.default))

\* Positional, were the token given to the latest-declared unbound parameter
PositionalLast(f, pyv, p) ==
    IF f.leftover = <<>> /\ f.rt.varargs = None
      THEN Raise(f, "ArgumentRejectedError", "no_vararg", p)
    ELSE IF f.leftover = <<>>
      THEN [f EXCEPT !.rt.varargs.held = Append(@, p)]
    ELSE ParseAndStore([f EXCEPT !.leftover = SubSeq(@, 1, Len(@) - 1)], pyv,
                       f.leftover[Len(f.leftover)], p)

\* Positional, were the token put in front of those collected before
PositionalPrepends(f, pyv, p) ==
    IF f.leftover = <<>> /\ f.rt.varargs = None
      THEN Raise(f, "ArgumentRejectedError", "no_vararg", p)
    ELSE IF f.leftover = <<>>
      THEN [f EXCEPT !.rt.varargs.held = <<p>> \o @]
    ELSE ParseAndStore([f EXCEPT !.leftover = Tail(@)], pyv, Head(f.leftover), p)

\* Positional, were leftover the parameters of the route themselves and not a copy
\* of their list: the parameter popped is gone from the route
PositionalPopsTable(f, pyv, p) ==
    IF f.leftover = <<>> /\ f.rt.varargs = None
      THEN Raise(f, "ArgumentRejectedError", "no_vararg", p)
    ELSE IF f.leftover = <<>>
      THEN [f EXCEPT !.rt.varargs.held = Append(@, p)]
    ELSE [ParseAndStore([f EXCEPT !.leftover = Tail(@)], pyv, Head(f.leftover), p)
            EXCEPT !.rt.args = Tail(@)]

\* lines 765-780: a positional token p, already popped from parts
Positional(f, pyv, p) ==
    IF f.leftover = <<>> /\ f.rt.varargs = None
      THEN Raise(f, "ArgumentRejectedError", "no_vararg", p)
    ELSE IF f.leftover = <<>>
      THEN [f EXCEPT !.rt.varargs.held = Append(@, p)]
    ELSE ParseAndStore([f EXCEPT !.leftover = Tail(@)], pyv, Head(f.leftover), p)

\* ToKwargs, were -argn taken like --argn
ToKwargsTakesSwitch(f, argn, supplied_switch, p) ==
    IF f.rt.kwargs = None
      THEN Raise(f, "ArgumentRejectedError", "no_kwargs", argn)
    ELSE IF f.parts = <<>>
      THEN Raise(f, "ArgumentMissingError", "missing_kwarg_value", argn)
    ELSE IF argn \in DOMAIN f.rt.kwargs.held
      THEN Raise([f EXCEPT !.parts = Tail(@)], "ArgumentRejectedError", "kwarg_exists", argn)
    ELSE [f EXCEPT !.parts = Tail(@),
                   !.rt.kwargs.held = @ @@ (argn :> Head(f.parts))]

\* ToKwargs, were a name collected already given its new value
ToKwargsOverwrites(f, argn, supplied_switch, p) ==
    IF f.rt.kwargs = None
      THEN Raise(f, "ArgumentRejectedError", "no_kwargs", argn)
    ELSE IF supplied_switch
      THEN Raise(f, "ArgumentRejectedError", "switch_in_kwargs", argn)
    ELSE IF f.parts = <<>>
      THEN Raise(f, "ArgumentMissingError", "missing_kwarg_value", argn)
    ELSE [f EXCEPT !.parts = Tail(@),
                   !.rt.kwargs.held = [n \in DOMAIN @ \cup {argn} |->
                                         IF n = argn THEN Head(f.parts) ELSE @[n]]]

\* lines 785-807: --argn or -argn where argn is not a declared parameter
ToKwargs(f, argn, supplied_switch, p) ==
    IF f.rt.kwargs = None
      THEN Raise(f, "ArgumentRejectedError", "no_kwargs", argn)
    ELSE IF supplied_switch
      THEN Raise(f, "ArgumentRejectedError", "switch_in_kwargs", argn)
    ELSE IF f.parts = <<>>
      THEN Raise(f, "ArgumentMissingError", "missing_kwarg_value", argn)
    ELSE IF argn \in DOMAIN f.rt.kwargs.held
      THEN Raise([f EXCEPT !.parts = Tail(@)], "ArgumentRejectedError", "kwarg_exists", argn)
    ELSE [f EXCEPT !.parts = Tail(@),
                   !.rt.kwargs.held = @ @@ (argn :> Head(f.parts))]

\* NamedLeftover, were a switch refused in the form --argn value
NamedRefusesSwitchValue(f, pyv, argn, supplied_switch) ==
    LET t_arg == ArgOf(f.rt, argn)
        g == [f EXCEPT !.leftover = Remove(@, argn)]
    IN
    IF supplied_switch # t_arg.isswitch
      THEN Raise(g, "ArgumentRejectedError", "not_a_switch", argn)
    ELSE IF t_arg.isswitch /\ supplied_switch
      THEN [g EXCEPT !.parsed_dict = [n \in DOMAIN @ \cup {argn} |->
                                        IF n = argn THEN SwitchValue(t_arg) ELSE @[n]]]
    ELSE IF g.parts = <<>>
      THEN Raise(g, "ArgumentMissingError", "missing_value", argn)
    ELSE ParseAndStore([g EXCEPT !.parts = Tail(@)], pyv, argn, Head(g.parts))

\* NamedLeftover, were the value token parsed and left in the stream
NamedLeftoverKeepsValue(f, pyv, argn, supplied_switch) ==
    IF supplied_switch /\ ~ArgOf(f.rt, argn).isswitch
      THEN Raise([f EXCEPT !.leftover = Remove(@, argn)], "ArgumentRejectedError",
                 "not_a_switch", argn)
    ELSE IF supplied_switch
      THEN [f EXCEPT !.leftover = Remove(@, argn),
                     !.parsed_dict = @ @@ (argn :> SwitchValue(ArgOf(f.rt, argn)))]
    ELSE IF f.parts = <<>>
      THEN Raise([f EXCEPT !.leftover = Remove(@, argn)], "ArgumentMissingError",
                 "missing_value", argn)
    ELSE ParseAndStore([f EXCEPT !.leftover = Remove(@, argn)], pyv, argn, Head(f.parts))

\* lines 814-839: --argn or -argn where argn is a declared parameter still in leftover
NamedLeftover(f, pyv, argn, supplied_switch) ==
    LET t_arg == ArgOf(f.rt, argn)
        g == [f EXCEPT !.leftover = Remove(@, argn)]
    IN
    IF supplied_switch /\ ~t_arg.isswitch
      THEN Raise(g, "ArgumentRejectedError", "not_a_switch", argn)
    ELSE IF t_arg.isswitch /\ supplied_switch
      THEN [g EXCEPT !.parsed_dict = [n \in DOMAIN @ \cup {argn} |->
                                        IF n = argn THEN SwitchValue(t_arg) ELSE @[n]]]
    ELSE IF g.parts = <<>>
      THEN Raise(g, "ArgumentMissingError", "missing_value", argn)
    ELSE ParseAndStore([g EXCEPT !.parts = Tail(@)], pyv, argn, Head(g.parts))

\* Named, were a parameter that is bound already bound anew
NamedOverwrites(f, pyv, argn, supplied_switch) ==
    IF InSeq(f.leftover, argn) THEN NamedLeftover(f, pyv, argn, supplied_switch)
    ELSE NamedLeftover([f EXCEPT !.leftover = <<argn>> \o @,
                                 !.parsed_dict = [n \in DOMAIN @ \ {argn} |-> @[n]]],
                       pyv, argn, supplied_switch)

\* Named, were the name of a parameter that is bound already handed to the kwarg
\* collector
NamedCollectsWhenSet(f, pyv, argn, supplied_switch) ==
    IF ~InSeq(f.leftover, argn) THEN ToKwargs(f, argn, supplied_switch, <<"-", "-">> \o argn)
    ELSE NamedLeftover(f, pyv, argn, supplied_switch)

\* Named, were a parameter that is bound already taken as if it were in leftover
NamedSkipsAlreadySet(f, pyv, argn, supplied_switch) ==
    IF InSeq(f.leftover, argn) THEN NamedLeftover(f, pyv, argn, supplied_switch)
    ELSE NamedLeftover([f EXCEPT !.leftover = <<argn>> \o @], pyv, argn, supplied_switch)

\* lines 809-839: --argn or -argn where argn is a declared parameter
Named(f, pyv, argn, supplied_switch) ==
    IF ~InSeq(f.leftover, argn)
      THEN Raise(f, "ArgumentRejectedError", "already_set", argn)
    ELSE NamedLeftover(f, pyv, argn, supplied_switch)

\* Dispatch, were a -token that names no declared parameter taken as a positional
\* value
DispatchDashPositional(f, pyv, p) ==
    LET named == StartsWith(p, <<"-", "-">>)
        supplied_switch == ~named /\ StartsWith(p, <<"-">>)
        argn == IF named THEN Drop(p, 2) ELSE IF supplied_switch THEN Drop(p, 1) ELSE <<>>
    IN
    IF named /\ argn = <<>>
      THEN Raise(f, "ArgumentRejectedError", "dash_positional", p)
    ELSE IF named /\ argn \notin NameSet(f.rt) /\ f.rt.kwargs = None
      THEN Raise(f, "ArgumentRejectedError", "unsupported_name", argn)
    ELSE IF ~named /\ argn \notin NameSet(f.rt) THEN Positional(f, pyv, p)
    ELSE IF argn \notin NameSet(f.rt) THEN ToKwargs(f, argn, supplied_switch, p)
    ELSE Named(f, pyv, argn, supplied_switch)

\* lines 742-839, for the token p popped from parts
Dispatch(f, pyv, p) ==
    LET named == StartsWith(p, <<"-", "-">>)
        supplied_switch == ~named /\ StartsWith(p, <<"-">>)
        positional == ~named /\ ~supplied_switch
        argn == IF named THEN Drop(p, 2) ELSE IF supplied_switch THEN Drop(p, 1) ELSE <<>>
    IN
    IF argn = <<>> /\ ~positional
      THEN Raise(f, "ArgumentRejectedError", "dash_positional", p)
    ELSE IF argn # <<>> /\ argn \notin NameSet(f.rt) /\ f.rt.kwargs = None
      THEN Raise(f, "ArgumentRejectedError", "unsupported_name", argn)
    ELSE IF positional THEN Positional(f, pyv, p)
    ELSE IF argn \notin NameSet(f.rt) THEN ToKwargs(f, argn, supplied_switch, p)
    ELSE Named(f, pyv, argn, supplied_switch)

\* one iteration that looks at parts[0] and leaves it in the stream
LoopBodyPeeks(f, pyv) == Dispatch(f, pyv, Head(f.parts))

\* one iteration of the while loop of Route.__call__ (lines 736-839)
LoopBody(f, pyv) == Dispatch([f EXCEPT !.parts = Tail(@)], pyv, Head(f.parts))

\* parsed_dict[name] = value
Assign(f, name, value) ==
    [f EXCEPT !.parsed_dict = [n \in DOMAIN @ \cup {name} |-> IF n = name THEN value ELSE @[n]]]

\* LeftoverArg, were a required argument left unbound resolved like an optional one
LeftoverArgSkipsRequired(f, leftover_arg, resolved) ==
    IF resolved.exc # None THEN [f EXCEPT !.exc = resolved.exc]
    ELSE Assign(f, leftover_arg.name, resolved.v)

\* lines 844-858 for one leftover_arg; resolved is what lines 850-858 resolve it to
LeftoverArg(f, leftover_arg, resolved) ==
    IF leftover_arg.required
      THEN Raise(f, "ArgumentMissingError", "required", leftover_arg.name)
    ELSE IF resolved.exc # None THEN [f EXCEPT !.exc = resolved.exc]
    ELSE Assign(f, leftover_arg.name, resolved.v)

\* Resolution, were the default preferred to the fallback
ResolutionPrefersDefault(a, pyv) ==
    IF a.default # None THEN [exc |-> None, v |-> a.default]
    ELSE IF a.fallback # None THEN ArgParse(a, pyv, a.fallback.v)
    ELSE [exc |-> None, v |-> a.default]

\* Resolution, were a default that is a string parsed like a fallback
ResolutionParsesDefault(a, pyv) ==
    IF a.fallback # None THEN ArgParse(a, pyv, a.fallback.v)
    ELSE IF a.default.t = "str" THEN ArgParse(a, pyv, a.default.v)
    ELSE [exc |-> None, v |-> a.default]

\* lines 850-858: what an argument left unbound resolves to, the parse of its
\* fallback or else its default as it is stored
Resolution(a, pyv) ==
    IF a.fallback # None THEN ArgParse(a, pyv, a.fallback.v)
    ELSE [exc |-> None, v |-> a.default]

\* the for loop over leftover (lines 841-858), from its i-th element on
RECURSIVE LeftoverFrom(_, _, _)
LeftoverNext(g, pyv, i) == IF g.exc # None THEN g ELSE LeftoverFrom(g, pyv, i + 1)

LeftoverFrom(f, pyv, i) ==
    IF i > Len(f.leftover) THEN f
    ELSE LeftoverNext(LeftoverArg(f, ArgOf(f.rt, f.leftover[i]),
                                  Resolution(ArgOf(f.rt, f.leftover[i]), pyv)),
                      pyv, i)

\* the parsed values in the reverse of the order of their parameters' declaration
RECURSIVE ArgListBackwards(_, _, _)
ArgListBackwards(rt, pd, i) ==
    IF i > Len(rt.args) THEN <<>>
    ELSE ArgListBackwards(rt, pd, i + 1)
         \o (IF rt.args[i].name \in DOMAIN pd THEN <<pd[rt.args[i].name]>> ELSE <<>>)

\* lines 860-866: the parsed values in the order of their parameters' declaration
RECURSIVE ArgList(_, _, _)
ArgList(rt, pd, i) ==
    IF i > Len(rt.args) THEN <<>>
    ELSE (IF rt.args[i].name \in DOMAIN pd THEN <<pd[rt.args[i].name]>> ELSE <<>>)
         \o ArgList(rt, pd, i + 1)

HoldsVarargs(rt) == rt.varargs # None /\ Len(rt.varargs.held) > 0
HoldsKwargs(rt) == rt.kwargs # None /\ DOMAIN rt.kwargs.held # {}

\* self.__varargs.parse() and self.__kwargs.parse()
VarargsParse(rt, pyv) ==
    IF ~HoldsVarargs(rt) THEN [exc |-> None, v |-> VList(<<>>)]
    ELSE CollectorParse(rt.varargs.arg, pyv, VList(StrList(rt.varargs.held)))

KwargsParse(rt, pyv) ==
    IF ~HoldsKwargs(rt) THEN [exc |-> None, v |-> VDict(EmptyMap)]
    ELSE CollectorParse(rt.kwargs.arg, pyv,
                        VDict([n \in DOMAIN rt.kwargs.held |-> VStr(rt.kwargs.held[n])]))

\* lines 860-885, given what the collectors' parse gave: [exc, ret, parsed_dict]
Assembled(f, var, kw) ==
    IF HoldsVarargs(f.rt) /\ var.exc # None
      THEN [exc |-> var.exc, ret |-> None, parsed_dict |-> f.parsed_dict]
    ELSE IF HoldsKwargs(f.rt) /\ DOMAIN f.parsed_dict \cap DOMAIN f.rt.kwargs.held # {}
      THEN [exc |-> Exc("ArgzError", "shadow", f.rt.name), ret |-> None,
            parsed_dict |-> f.parsed_dict]
    ELSE IF HoldsKwargs(f.rt) /\ kw.exc # None
      THEN [exc |-> kw.exc, ret |-> None, parsed_dict |-> f.parsed_dict]
    ELSE [exc |-> None,
          ret |-> [fref |-> f.rt.name,
                   arglist |-> ArgList(f.rt, f.parsed_dict, 1) \o var.v.v,
                   argkw |-> kw.v.v],
          parsed_dict |-> f.parsed_dict]

\* lines 860-885: the final assembly
Assemble(f, pyv) ==
    IF f.exc # None THEN [exc |-> f.exc, ret |-> None, parsed_dict |-> f.parsed_dict]
    ELSE Assembled(f, VarargsParse(f.rt, pyv), KwargsParse(f.rt, pyv))

\* Route.__call__ after the while loop (lines 841-885): [exc, ret, parsed_dict]
AfterLoop(f, pyv) == Assemble(LeftoverFrom(f, pyv, 1), pyv)

-----------------------------------------------------------------------------
(* Module level: the TargetList route, _parse and parse *)

HELP_OPTIONS ==
    {<<"-", "h">>, <<"/", "h">>, <<"-", "?">>, <<"/", "?">>,
     <<"/", "h", "e", "l", "p">>, <<"-", "-", "h", "e", "l", "p">>}

RouteNames(targets) == {targets[i].name : i \in 1..Len(targets)}

\* route[name]
RouteIndex(targets, name) == CHOOSE i \in 1..Len(targets) : targets[i].name = name

\* Prelude, were a route called with an empty list of parts
PreludeBindsEmpty(targets, a) ==
    IF Len(targets) = 0
      THEN [exc |-> Exc("Exception", "no_targets", <<>>), cur |-> 0, parts |-> a]
    ELSE IF a # <<>> /\ Lower(Head(a)) \in HELP_OPTIONS
      THEN IF Len(a) > 1 /\ a[2] \in RouteNames(targets)
           THEN [exc |-> Exc("RequestHelpError", "help_route", a[2]), cur |-> 0, parts |-> a]
           ELSE [exc |-> Exc("RequestHelpError", "help", Head(a)), cur |-> 0, parts |-> a]
    ELSE IF Len(targets) = 1 THEN [exc |-> None, cur |-> 1, parts |-> a]
    ELSE IF a # <<>> /\ Head(a) \in RouteNames(targets)
      THEN [exc |-> None, cur |-> RouteIndex(targets, Head(a)), parts |-> Tail(a)]
    ELSE [exc |-> Exc("MissingRouteError", "route", IF a = <<>> THEN <<>> ELSE Head(a)),
          cur |-> 0, parts |-> a]

\* Prelude, were the name of the only route taken off the front of the list
PreludeSelectsAlways(targets, a) ==
    IF Len(targets) = 0
      THEN [exc |-> Exc("Exception", "no_targets", <<>>), cur |-> 0, parts |-> a]
    ELSE IF a = <<>>
      THEN [exc |-> Exc("RequestHelpError", "usage", <<>>), cur |-> 0, parts |-> a]
    ELSE IF Lower(Head(a)) \in HELP_OPTIONS
      THEN IF Len(a) > 1 /\ a[2] \in RouteNames(targets)
           THEN [exc |-> Exc("RequestHelpError", "help_route", a[2]), cur |-> 0, parts |-> a]
           ELSE [exc |-> Exc("RequestHelpError", "help", Head(a)), cur |-> 0, parts |-> a]
    ELSE IF Head(a) \in RouteNames(targets)
      THEN [exc |-> None, cur |-> RouteIndex(targets, Head(a)), parts |-> Tail(a)]
    ELSE IF Len(targets) = 1 THEN [exc |-> None, cur |-> 1, parts |-> a]
    ELSE [exc |-> Exc("MissingRouteError", "route", Head(a)), cur |-> 0, parts |-> a]

\* _get_parts_from_args for a list, then _parse up to the call of the Route (lines
\* 1019-1049): the exception raised, or the Route chosen and the parts handed to it
Prelude(targets, a) ==
    LET ps == a
        p0 == ps[1]
        single == Len(targets) = 1
    IN
    IF Len(targets) = 0
      THEN [exc |-> Exc("Exception", "no_targets", <<>>), cur |-> 0, parts |-> ps]
    ELSE IF ps = <<>>
      THEN [exc |-> Exc("RequestHelpError", "usage", <<>>), cur |-> 0, parts |-> ps]
    ELSE IF Lower(p0) \in HELP_OPTIONS
      THEN IF Len(ps) > 1 /\ ps[2] \in RouteNames(targets)
           THEN [exc |-> Exc("RequestHelpError", "help_route", ps[2]), cur |-> 0, parts |-> ps]
           ELSE [exc |-> Exc("RequestHelpError", "help", p0), cur |-> 0, parts |-> ps]
    ELSE IF single THEN [exc |-> None, cur |-> 1, parts |-> ps]
    ELSE IF p0 \in RouteNames(targets)
      THEN [exc |-> None, cur |-> RouteIndex(targets, p0), parts |-> Tail(ps)]
    ELSE [exc |-> Exc("MissingRouteError", "route", p0), cur |-> 0, parts |-> ps]

\* The except clauses of parse() (lines 1115-1162): the exception parse() ends
\* with.  The clause for a plain ArgzError reads e, which no clause has bound.
Handled(exc) ==
    IF exc.cls = "ArgzError" THEN Exc("UnboundLocalError", "e", exc.name) ELSE exc

\* whether parse() returns (None) instead of letting the exception propagate
Returns(exc) == exc.cls \in CaughtClasses

-----------------------------------------------------------------------------
(* Names and tokens *)

n_path == <<"p", "a", "t", "h">>
n_verbose == <<"v", "e", "r", "b", "o", "s", "e">>
n_count == <<"c", "o", "u", "n", "t">>
n_rest == <<"r", "e", "s", "t">>
n_kw == <<"k", "w">>

Dash(n) == <<"-">> \o n
DDash(n) == <<"-", "-">> \o n

input_txt == <<"i", "n", "p", "u", "t", ".", "t", "x", "t">>

\* def func(path, verbose=False)
R_switch == <<RouteInit(<<"f">>, <<n_path, n_verbose>>, <<VBool(FALSE)>>, None, None)>>

T_switch ==
    {input_txt, <<>>, Dash(n_verbose), DDash(n_verbose), DDash(n_path), Dash(n_path),
     Dash(<<"k">>), <<"-">>}

\* def a(x) and def b(y, z=1)
R_ab == <<RouteInit(<<"a">>, <<<<"x">>>>, <<>>, None, None),
          RouteInit(<<"b">>, <<<<"y">>, <<"z">>>>, <<VInt(1)>>, None, None)>>

T_ab == {<<"a">>, <<"b">>, <<"c">>, <<"5">>, <<"z", "z">>, DDash(<<"y">>), DDash(<<"z">>),
         DDash(<<"x">>)}

\* route.rn.an, the argument named an of the route named rn
ArgAt(targets, rn, an) == ArgOf(targets[RouteIndex(targets, rn)], an)

\* the routes once the attributes of route.rn.an are set as in arg
Configure(targets, rn, an, arg) ==
    [targets EXCEPT ![RouteIndex(targets, rn)].args[IndexOf(targets[RouteIndex(targets, rn)], an)]
                        = arg]

\* def g(p=1, q=False) with g.p.fallback = '7', g.q.fallback = '0'; def h(m, n=2) with h.n.fallback = '7'
\* and then h.n.default = 3; def d(r='zz') with d.r.validator = '[0-9]+', d.r.min = 1
WithFallback7(arg) == SetFallback(arg, VStr(<<"7">>))
WithFallback0(arg) == SetFallback(arg, VStr(<<"0">>))
WithFallback7Default3(arg) == SetDefault(SetFallback(arg, VStr(<<"7">>)), VInt(3))
WithDigitsMin1(arg) == [arg EXCEPT !.validator = VStr(PatDigits), !.min = VInt(1)]

F_opt ==
    <<RouteInit(<<"g">>, <<<<"p">>, <<"q">>>>, <<VInt(1), VBool(FALSE)>>, None, None),
      RouteInit(<<"h">>, <<<<"m">>, <<"n">>>>, <<VInt(2)>>, None, None),
      RouteInit(<<"d">>, <<<<"r">>>>, <<VStr(<<"z", "z">>)>>, None, None)>>

R_opt ==
    Configure(Configure(Configure(Configure(F_opt,
      <<"g">>, <<"p">>, WithFallback7(ArgAt(F_opt, <<"g">>, <<"p">>))),
      <<"g">>, <<"q">>, WithFallback0(ArgAt(F_opt, <<"g">>, <<"q">>))),
      <<"h">>, <<"n">>, WithFallback7Default3(ArgAt(F_opt, <<"h">>, <<"n">>))),
      <<"d">>, <<"r">>, WithDigitsMin1(ArgAt(F_opt, <<"d">>, <<"r">>)))

T_opt == {<<"g">>, <<"h">>, <<"d">>, <<"5">>, <<"z", "z">>, DDash(<<"n">>), DDash(<<"p">>),
          Dash(<<"q">>), DDash(<<"r">>)}

\* def e(u, w) with e.u.validator = '[0-9]+' and e.u.fallback = 'zz';
\* def t(s=1) with t.s.fallback = 'zz'; def o(i='zz', j=None)
WithDigitsFallbackZZ(arg) == SetFallback([arg EXCEPT !.validator = VStr(PatDigits)], VStr(<<"z", "z">>))
WithFallbackZZ(arg) == SetFallback(arg, VStr(<<"z", "z">>))

F_bad ==
    <<RouteInit(<<"e">>, <<<<"u">>, <<"w">>>>, <<>>, None, None),
      RouteInit(<<"t">>, <<<<"s">>>>, <<VInt(1)>>, None, None),
      RouteInit(<<"o">>, <<<<"i">>, <<"j">>>>, <<VStr(<<"z", "z">>), None>>, None, None)>>

R_bad ==
    Configure(Configure(F_bad,
      <<"e">>, <<"u">>, WithDigitsFallbackZZ(ArgAt(F_bad, <<"e">>, <<"u">>))),
      <<"t">>, <<"s">>, WithFallbackZZ(ArgAt(F_bad, <<"t">>, <<"s">>)))

T_bad == {<<"e">>, <<"t">>, <<"o">>, <<"5">>, <<"z", "z">>, DDash(<<"w">>), DDash(<<"u">>),
          DDash(<<"j">>)}

\* def k(x, *rest, **kw), the only route
R_coll == <<RouteInit(<<"k">>, <<<<"x">>>>, <<>>, VStr(n_rest), VStr(n_kw))>>

T_coll == {<<"5">>, <<"k">>, DDash(<<"o">>), Dash(<<"o">>), DDash(<<"x">>)}

\* def n(count=5), the only route
R_one == <<RouteInit(<<"n">>, <<n_count>>, <<VInt(5)>>, None, None)>>

T_one == {<<"0">>, <<"5">>, <<"-", "1">>, DDash(n_count), <<"-", "h">>, <<"n">>}

\* def route_min(count), the only route, with the attributes of count set as in arg
route_min(arg) ==
    Configure(<<RouteInit(<<"m">>, <<n_count>>, <<>>, None, None)>>, <<"m">>, n_count, arg)

\* count.adapter = [int], count.min = 1, count.max = 10
S_min_int ==
    [route |-> route_min([ArgInit(n_count) EXCEPT !.adapter = VList(<<"int">>),
                                                  !.min = VInt(1), !.max = VInt(10)]),
     tokens |-> {<<"0">>, <<"1">>, <<"5">>, <<"1", "0">>, <<"1", "1">>, <<"z", "z">>}]

\* count.split = ',', count.min = 2, count.max = 3, count.validator = int,
\* count.adapter = [int]
S_split ==
    [route |-> route_min([ArgInit(n_count) EXCEPT !.split = VStr(<<",">>), !.min = VInt(2),
                                                  !.max = VInt(3),
                                                  !.validator = Callable("int"),
                                                  !.adapter = VList(<<"int">>)]),
     tokens |-> {<<"3", ",", "2", ",", "1">>, <<"3">>, <<"z", "z">>, <<"3", ",", "z", "z">>,
                 <<"3", ",", "0">>, <<"3", ",", "2", ",", "1", ",", "0">>}]

\* count.adapter = [int, str]
S_chain ==
    [route |-> route_min([ArgInit(n_count) EXCEPT !.adapter = VList(<<"int", "str">>)]),
     tokens |-> {<<"0", "5">>, <<"5">>, <<"z", "z">>}]

\* count.validator = {'5': 1, '0': 2}
S_contains ==
    [route |-> route_min([ArgInit(n_count) EXCEPT
                            !.validator = VDict([k \in {<<"5">>, <<"0">>} |-> VInt(1)])]),
     tokens |-> {<<"5">>, <<"0">>, <<"z", "z">>, <<>>}]

\* def c(*rest, **kw), the only route, with validator, adapter, split and a bound
\* set on both collectors
S_collect ==
    [route |-> <<[RouteInit(<<"c">>, <<>>, <<>>, VStr(n_rest), VStr(n_kw)) EXCEPT
                    !.varargs.arg = [@ EXCEPT !.validator = Callable("len"),
                                              !.adapter = VList(<<"list">>),
                                              !.split = VStr(<<",">>), !.min = VInt(5)],
                    !.kwargs.arg = [@ EXCEPT !.validator = Callable("len"),
                                             !.adapter = Callable("dict"),
                                             !.split = VStr(<<",">>), !.max = VInt(0)]]>>,
     tokens |-> {<<"3", ",", "2">>, <<>>, DDash(<<"o">>)}]

\* count.split = ',', count.validator = len, count.adapter = [int]
S_order ==
    [route |-> route_min([ArgInit(n_count) EXCEPT !.split = VStr(<<",">>),
                                                  !.validator = Callable("len"),
                                                  !.adapter = VList(<<"int">>)]),
     tokens |-> {<<"z", ",">>, <<",", "z">>, <<"5", ",">>, <<"5", ",", "7">>, <<"-", "-">>}]

\* count.adapter = [int], count.min = 0, count.max = 0
S_zero ==
    [route |-> route_min([ArgInit(n_count) EXCEPT !.adapter = VList(<<"int">>),
                                                  !.min = VInt(0), !.max = VInt(0)]),
     tokens |-> {<<"0">>, <<"5">>, <<"-", "1">>, DDash(n_count)}]

\* count.split = ',', count.max = 0
S_zero_split ==
    [route |-> route_min([ArgInit(n_count) EXCEPT !.split = VStr(<<",">>), !.max = VInt(0)]),
     tokens |-> {<<>>, <<"3">>}]

Scenarios ==
    {S_min_int, S_split, S_chain, S_contains, S_collect, S_order, S_zero, S_zero_split,
     [route |-> R_switch, tokens |-> T_switch],
     [route |-> R_ab, tokens |-> T_ab],
     [route |-> R_opt, tokens |-> T_opt],
     [route |-> R_bad, tokens |-> T_bad],
     [route |-> R_coll, tokens |-> T_coll],
     [route |-> R_one, tokens |-> T_one]}

\* what the caller sets on an argument that parse() reported missing
Fallbacks == {VStr(<<"7">>), VStr(<<"z", "z">>)}
Defaults == {None}

\* the routes as they were registered
Registered == (CHOOSE s \in Scenarios : s.tokens = tokens).route

\* the caller has set a fallback or a default on an argument since registration
Reconfigured == \E i \in 1..Len(route) : route[i].args # Registered[i].args

\* the argument lists the caller may hand to parse(): every list of at most MaxTokens
\* tokens, and every shorter list given twice over
ArgLists(toks) ==
    UNION {[1..n -> toks] : n \in 0..MaxTokens}
      \cup {a \o a : a \in [1..(MaxTokens - 1) -> toks]}

\* the number of entries held by the collectors of the first i routes
RECURSIVE Collected(_, _)
Collected(targets, i) ==
    IF i = 0 THEN 0
    ELSE Collected(targets, i - 1)
         + (IF targets[i].varargs = None THEN 0 ELSE Len(targets[i].varargs.held))
         + (IF targets[i].kwargs = None THEN 0 ELSE Cardinality(DOMAIN targets[i].kwargs.held))

-----------------------------------------------------------------------------
(* The state machine *)

Init ==
    /\ py \in {2, 3}
    /\ \E s \in Scenarios : route = s.route /\ tokens = s.tokens
    /\ args = <<>>
    /\ ret = Unbound
    /\ err = None
    /\ prev = Unbound
    /\ pc = "idle"
    /\ cur = 0
    /\ parts = <<>>
    /\ leftover = <<>>
    /\ parsed_dict = EmptyMap

\* what parse() leaves to its caller when it ends with exception exc (None: it
\* returns value): the exception it ended with and the value returned, Unbound
\* when the exception propagates to the caller
Outcome(exc, value) ==
    [err |-> IF exc = None THEN None ELSE Handled(exc),
     ret |-> IF exc = None THEN value ELSE IF Returns(exc) THEN None ELSE Unbound]

\* parse() goes on as the prelude pre tells
Enter(pre) ==
    /\ pc' = IF pre.exc # None THEN "done" ELSE "loop"
    /\ err' = Outcome(pre.exc, Unbound).err
    /\ ret' = Outcome(pre.exc, Unbound).ret
    /\ cur' = pre.cur
    /\ parts' = pre.parts
    /\ leftover' = IF pre.exc # None THEN <<>> ELSE Names(route[pre.cur])
    /\ parsed_dict' = EmptyMap

\* the caller calls parse(a): _get_parts_from_args and _parse up to the Route's loop
Parse(a) ==
    /\ pc = "idle"
    /\ ~Reconfigured
    /\ Collected(route, Len(route)) < MaxCollected
    /\ args' = a
    /\ prev' = Unbound
    /\ Enter(Prelude(route, a))
    /\ UNCHANGED <<py, route, tokens>>

\* the caller calls parse() again with the list of the call that reported the
\* missing argument
Reparse ==
    /\ pc = "done"
    /\ prev # Unbound
    /\ Collected(route, Len(route)) < MaxCollected
    /\ Enter(Prelude(route, args))
    /\ UNCHANGED <<py, route, tokens, args, prev>>

\* parse() reported an argument missing and the caller sets its fallback or default
MadeOptional(a) ==
    /\ pc = "done"
    /\ err # None
    /\ err.kind = "required"
    /\ ~Reconfigured
    /\ route' = [route EXCEPT ![cur].args[IndexOf(route[cur], err.name)] = a]
    /\ prev' = [ret |-> ret, err |-> err]
    /\ UNCHANGED <<py, tokens, args, ret, err, pc, cur, parts, leftover, parsed_dict>>

SetArgFallback == \E v \in Fallbacks : MadeOptional(SetFallback(ArgOf(route[cur], err.name), v))

SetArgDefault == \E v \in Defaults : MadeOptional(SetDefault(ArgOf(route[cur], err.name), v))

\* the running call as a Frame
Running == [rt |-> route[cur], parts |-> parts, leftover |-> leftover,
            parsed_dict |-> parsed_dict, exc |-> None]

\* the running call becomes frame f
Step(f) ==
    /\ route' = [route EXCEPT ![cur] = f.rt]
    /\ parts' = f.parts
    /\ leftover' = f.leftover
    /\ parsed_dict' = f.parsed_dict
    /\ pc' = IF f.exc # None THEN "done" ELSE "loop"
    /\ err' = Outcome(f.exc, Unbound).err
    /\ ret' = Outcome(f.exc, Unbound).ret

\* one iteration of the while loop of Route.__call__
Iterate ==
    /\ pc = "loop"
    /\ parts # <<>>
    /\ Step(LoopBody(Running, py))
    /\ UNCHANGED <<py, tokens, args, prev, cur>>

\* the call ends with result r
Return(r) ==
    /\ parsed_dict' = r.parsed_dict
    /\ pc' = "done"
    /\ err' = Outcome(r.exc, r.ret).err
    /\ ret' = Outcome(r.exc, r.ret).ret

\* the stream is exhausted: leftovers, final assembly and return
Finish ==
    /\ pc = "loop"
    /\ parts = <<>>
    /\ Return(AfterLoop(Running, py))
    /\ UNCHANGED <<py, route, tokens, args, prev, cur, parts, leftover>>

\* the caller is done with the result; the locals of the finished call are gone
Discard ==
    /\ pc = "done"
    /\ pc' = "idle"
    /\ args' = <<>>
    /\ ret' = Unbound
    /\ err' = None
    /\ prev' = Unbound
    /\ cur' = 0
    /\ parts' = <<>>
    /\ leftover' = <<>>
    /\ parsed_dict' = EmptyMap
    /\ UNCHANGED <<py, route, tokens>>

Next ==
    \/ \E a \in ArgLists(tokens) : Parse(a)
    \/ Iterate
    \/ Finish
    \/ Reparse
    \/ SetArgFallback
    \/ SetArgDefault
    \/ Discard

Spec == Init /\ [][Next]_vars

\* ENABLED <<Iterate>>_vars and ENABLED <<Finish>>_vars: the guards of the two
\* actions, as an iteration always pops a token off parts and Finish always
\* changes pc
IterateEnabled == pc = "loop" /\ parts # <<>>
FinishEnabled == pc = "loop" /\ parts = <<>>

\* parse() runs in the thread of its caller, which executes the statements of a
\* call one after the other until the call returns or raises: an iteration of
\* the loop that can be taken is taken, and so is the exit of the loop.  This is
\* WF_vars(Iterate) /\ WF_vars(Finish), with ENABLED written out.
FairSpec ==
    /\ Init /\ [][Next]_vars
    /\ []<>~IterateEnabled \/ []<><<Iterate>>_vars
    /\ []<>~FinishEnabled \/ []<><<Finish>>_vars

-----------------------------------------------------------------------------
(* A whole call of parse(), from the routes and the argument list *)

\* the while loop of Route.__call__ (lines 736-839), run to its end or to a raise
RECURSIVE RunLoop(_, _)
RunLoop(f, pyv) ==
    IF f.exc # None \/ f.parts = <<>> THEN f ELSE RunLoop(LoopBody(f, pyv), pyv)

OutcomeOf(r) == Outcome(r.exc, r.ret)

\* Route.__call__ from the end of its loop on, and what parse() makes of it
Ended(f, pyv) ==
    IF f.exc # None THEN Outcome(f.exc, Unbound) ELSE OutcomeOf(AfterLoop(f, pyv))

\* parse() from the result pre of the prelude on
Called(pre, targets, pyv) ==
    IF pre.exc # None THEN Outcome(pre.exc, Unbound)
    ELSE Ended(RunLoop(Frame(targets[pre.cur], pre.parts), pyv), pyv)

\* parse(a) on the routes targets: what the caller gets
Call(targets, pyv, a) == Called(Prelude(targets, a), targets, pyv)

\* go(): whether it calls the target, given what its call of parse() came to
GoInvokes(o) == o.ret # Unbound /\ o.ret # None

\* the routes with their collectors as Varargs.init and Kwargs.init leave them
Fresh(targets) ==
    [i \in 1..Len(targets) |->
        [targets[i] EXCEPT !.varargs = IF @ = None THEN None ELSE [@ EXCEPT !.held = <<>>],
                           !.kwargs = IF @ = None THEN None ELSE [@ EXCEPT !.held = EmptyMap]]]

-----------------------------------------------------------------------------
(* Vocabulary of the properties *)

IsNamed(p) == StartsWith(p, <<"-", "-">>)
IsSwitch(p) == ~IsNamed(p) /\ StartsWith(p, <<"-">>)
IsPositional(p) == ~IsNamed(p) /\ ~IsSwitch(p)

\* the name a --name or -name token carries
NameIn(p) == IF IsNamed(p) THEN Drop(p, 2) ELSE Drop(p, 1)

\* the declared parameters of the running route that hold no value yet
UnboundNames == NameSet(route[cur]) \ DOMAIN parsed_dict

\* the earliest declared of them
EarliestUnbound ==
    route[cur].args[CHOOSE i \in 1..Len(route[cur].args) :
                      /\ route[cur].args[i].name \in UnboundNames
                      /\ \A j \in 1..(i - 1) : route[cur].args[j].name \notin UnboundNames]

\* the loop of the running route is about to take the token Head(parts)
Taking == pc = "loop" /\ parts # <<>>

\* the results of the completed call, as the caller gets them
Succeeded == pc = "done" /\ err = None
Result(fref, arglist, argkw) == [fref |-> fref, arglist |-> arglist, argkw |-> argkw]

-----------------------------------------------------------------------------
(* Positional binding *)

\* a positional token taken while a declared parameter is unbound
C1_PositionalStep ==
    (Taking /\ IsPositional(Head(parts)) /\ UnboundNames # {}) =>
        /\ parts' = Tail(parts)
        /\ [i \in 1..Len(route') |-> route'[i].varargs] = [i \in 1..Len(route) |-> route[i].varargs]
        /\ \/ /\ pc' = "loop"
              /\ ArgParse(EarliestUnbound, py, Head(parts)).exc = None
              /\ parsed_dict' = parsed_dict @@
                    (EarliestUnbound.name :> ArgParse(EarliestUnbound, py, Head(parts)).v)
           \/ /\ pc' = "done"
              /\ ArgParse(EarliestUnbound, py, Head(parts)).exc # None
              /\ err' = Handled(ArgParse(EarliestUnbound, py, Head(parts)).exc)
              /\ parsed_dict' = parsed_dict

\* C1: a positional token taken while some declared parameter is unbound goes to
\* the earliest-declared unbound parameter, whatever was bound by --name or -name
\* before: either that parameter, and no other, gets the token's parsed value, or
\* the call fails on parsing the token for it and nothing is bound.
C1_PositionalTakesEarliestUnbound == [][C1_PositionalStep]_vars

\* --path input.txt input.txt: path is bound by name, and the positional token goes to
\* verbose, the earliest parameter still unbound
C1_Witness ==
    /\ route = R_switch
    /\ args = <<DDash(n_path), input_txt, input_txt>>
    /\ Succeeded
    /\ ret = Result(<<"f">>, <<VStr(input_txt), VBool(TRUE)>>, EmptyMap)

-----------------------------------------------------------------------------
(* Named binding *)

\* a named or switch token for a parameter that holds a value already
C2_DuplicateStep ==
    (Taking /\ ~IsPositional(Head(parts)) /\ NameIn(Head(parts)) \in DOMAIN parsed_dict) =>
        /\ pc' = "done"
        /\ err' = Exc("ArgumentRejectedError", "already_set", NameIn(Head(parts)))
        /\ ret' = None
        /\ parsed_dict' = parsed_dict

\* C2: a --name or -name token for a declared parameter that holds a value
\* already, however it was bound, ends the call with the "already set"
\* rejection; the value bound before is not overwritten and parse returns None.
C2_DuplicateBindingRejected == [][C2_DuplicateStep]_vars

\* input.txt --path input.txt: path, bound by position, is named again
C2_Witness ==
    /\ route = R_switch
    /\ args = <<input_txt, DDash(n_path), input_txt>>
    /\ pc = "done"
    /\ err = Exc("ArgumentRejectedError", "already_set", n_path)
    /\ ret = None
    /\ parsed_dict = (n_path :> VStr(input_txt))

-----------------------------------------------------------------------------
(* Switches *)

\* the token about to be taken names an unbound declared switch
TakingSwitchParam ==
    /\ Taking
    /\ ~IsPositional(Head(parts))
    /\ NameIn(Head(parts)) \in UnboundNames
    /\ ArgOf(route[cur], NameIn(Head(parts))).isswitch

\* -name on a switch with default d binds the negation of d and consumes the
\* marker only: the loop goes on with the next token
C3_MarkerStep ==
    (TakingSwitchParam /\ IsSwitch(Head(parts))) =>
        /\ pc' = "loop"
        /\ parts' = Tail(parts)
        /\ parsed_dict' = parsed_dict @@
              (NameIn(Head(parts)) :>
                 VBool(~Truthy(ArgOf(route[cur], NameIn(Head(parts))).default)))
        /\ parsed_dict'[NameIn(Head(parts))] # ArgOf(route[cur], NameIn(Head(parts))).default

\* the call succeeds at the end of the stream
Succeeding == pc = "loop" /\ parts = <<>> /\ pc' = "done" /\ err' = None

\* a switch that was not supplied and has no fallback resolves to its default
C3_UnsuppliedStep ==
    Succeeding =>
        \A n \in UnboundNames :
            (ArgOf(route[cur], n).isswitch /\ ArgOf(route[cur], n).fallback = None) =>
                parsed_dict'[n] = ArgOf(route[cur], n).default

\* a switch that was not supplied resolves to its default, fallback or not
C3_UnsuppliedStepOriginal ==
    Succeeding =>
        \A n \in UnboundNames :
            ArgOf(route[cur], n).isswitch => parsed_dict'[n] = ArgOf(route[cur], n).default

\* def func(path, verbose=False) with input.txt -verbose gives (['input.txt', True], {})
C3_Example ==
    (route = R_switch /\ args = <<input_txt, Dash(n_verbose)>> /\ pc = "done") =>
        /\ err = None
        /\ ret = Result(<<"f">>, <<VStr(input_txt), VBool(TRUE)>>, EmptyMap)

\* C3 (amended): for a switch with stored default d, -name binds the negation of
\* d and consumes the marker only; a switch that is not supplied and has no
\* fallback resolves to d; (path, verbose=false) with ["input.txt", "-verbose"]
\* gives (["input.txt", true], {}).
C3_SwitchMarker == [][C3_MarkerStep /\ C3_UnsuppliedStep /\ C3_Example]_vars

\* C3 as stated: an unsupplied switch resolves to d whatever else is set on it
C3_Original == [][C3_MarkerStep /\ C3_UnsuppliedStepOriginal /\ C3_Example]_vars

\* -verbose input.txt: the marker binds verbose and the next token is taken as a
\* fresh positional argument
C3_Witness ==
    /\ route = R_switch
    /\ args = <<Dash(n_verbose), input_txt>>
    /\ Succeeded
    /\ ret = Result(<<"f">>, <<VStr(input_txt), VBool(TRUE)>>, EmptyMap)

\* --name on an unbound switch takes the next token as its value and binds the
\* switch to bool(value); without a next token the value is reported missing
C4_NamedSwitchStep ==
    (TakingSwitchParam /\ IsNamed(Head(parts))) =>
        IF Len(parts) = 1
        THEN /\ pc' = "done"
             /\ err' = Exc("ArgumentMissingError", "missing_value", NameIn(Head(parts)))
             /\ parsed_dict' = parsed_dict
        ELSE /\ pc' = "loop"
             /\ parts' = Tail(Tail(parts))
             /\ parsed_dict' = parsed_dict @@ (NameIn(Head(parts)) :> VBool(parts[2] # <<>>))

\* C4 (amended): for a switch parameter, the value-bearing form --name value is
\* accepted: the value token is consumed and the switch is bound to the
\* truthiness of the value string (false only for the empty string).
C4_NamedSwitchTakesValue == [][C4_NamedSwitchStep]_vars

\* --name value on an unbound switch is refused and binds nothing
C4_OriginalStep ==
    (TakingSwitchParam /\ IsNamed(Head(parts)) /\ Len(parts) > 1) =>
        /\ pc' = "done"
        /\ err' = Exc("ArgumentRejectedError", "not_a_switch", NameIn(Head(parts)))
        /\ parsed_dict' = parsed_dict

\* C4 as stated: --name value on a switch is rejected as a switch mismatch and
\* binds nothing
C4_Original == [][C4_OriginalStep]_vars

\* input.txt --verbose '': the switch is bound to bool('')
C4_Witness ==
    /\ route = R_switch
    /\ args = <<input_txt, DDash(n_verbose), <<>>>>
    /\ Succeeded
    /\ ret = Result(<<"f">>, <<VStr(input_txt), VBool(FALSE)>>, EmptyMap)

\* the collectors of all routes
Collectors(targets) == [i \in 1..Len(targets) |-> <<targets[i].varargs, targets[i].kwargs>>]

\* a -name token whose name is undeclared, bound already or no switch
C5_SwitchStep ==
    (/\ Taking
     /\ IsSwitch(Head(parts))
     /\ \/ NameIn(Head(parts)) \notin NameSet(route[cur])
        \/ NameIn(Head(parts)) \in DOMAIN parsed_dict
        \/ ~ArgOf(route[cur], NameIn(Head(parts))).isswitch) =>
        /\ pc' = "done"
        /\ ret' = None
        /\ err' # None
        /\ err'.cls = "ArgumentRejectedError"
        /\ err'.kind =
              IF NameIn(Head(parts)) = <<>> THEN "dash_positional"
              ELSE IF NameIn(Head(parts)) \notin NameSet(route[cur])
                THEN IF route[cur].kwargs = None THEN "unsupported_name" ELSE "switch_in_kwargs"
              ELSE IF NameIn(Head(parts)) \in DOMAIN parsed_dict THEN "already_set"
              ELSE "not_a_switch"
        /\ parsed_dict' = parsed_dict
        /\ Collectors(route') = Collectors(route)

\* C5: a -name token fails the call whenever name is not a declared parameter
\* (whether or not the route collects kwargs), or the parameter is bound already,
\* or the parameter is not a switch; nothing is bound or collected.
C5_SwitchFormFails == [][C5_SwitchStep]_vars

\* 5 -o for def k(x, *rest, **kw): the route collects kwargs, and -o is refused
\* all the same
C5_Witness ==
    /\ route[1].name = <<"k">>
    /\ route[1].kwargs # None
    /\ args = <<<<"5">>, Dash(<<"o">>)>>
    /\ pc = "done"
    /\ err = Exc("ArgumentRejectedError", "switch_in_kwargs", <<"o">>)
    /\ ret = None
    /\ parsed_dict = (<<"x">> :> VStr(<<"5">>))

-----------------------------------------------------------------------------
(* The end of the stream *)

\* the tokens handed to the route that was chosen
Handed == IF Len(route) = 1 THEN args ELSE Tail(args)

\* the route was handed no token and its loop is over
EmptyBinding == pc = "loop" /\ parts = <<>> /\ Handed = <<>>

\* the i-th parameter of the running route is required / has a fallback that its
\* own pipeline refuses
RequiredAt(i) == route[cur].args[i].required
BadFallbackAt(i) ==
    /\ route[cur].args[i].fallback # None
    /\ ArgParse(route[cur].args[i], py, route[cur].args[i].fallback.v).exc # None

Params == 1..Len(route[cur].args)

Stops(i) == RequiredAt(i) \/ BadFallbackAt(i)

\* the first parameter, in declaration order, that is required / that stops the call
FirstRequired == CHOOSE i \in Params : RequiredAt(i) /\ \A j \in 1..(i - 1) : ~RequiredAt(j)
FirstStop == CHOOSE i \in Params : Stops(i) /\ \A j \in 1..(i - 1) : ~Stops(j)

MissingRequired(i) == Exc("ArgumentMissingError", "required", route[cur].args[i].name)

\* binding no token succeeds iff no parameter is required and no fallback is
\* refused by its pipeline; otherwise the call ends at the first parameter, in
\* declaration order, that is required or has such a fallback
C6_EmptyStep ==
    EmptyBinding =>
        /\ pc' = "done"
        /\ (err' = None) <=> (\A i \in Params : ~Stops(i))
        /\ (\E i \in Params : Stops(i)) =>
              err' = IF RequiredAt(FirstStop) THEN MissingRequired(FirstStop)
                     ELSE Handled(ArgParse(route[cur].args[FirstStop], py,
                                           route[cur].args[FirstStop].fallback.v).exc)
        /\ (\A i \in Params : ~RequiredAt(i)) => (err' = None \/ err'.kind # "required")

\* C6 (amended): binding an empty token stream against the route succeeds iff
\* every parameter is optional and every fallback passes its own pipeline; when
\* some parameter is required the call fails, with the missing-required error
\* naming the first required parameter unless an optional parameter declared
\* before it has a fallback that its pipeline refuses, and then with that refusal.
C6_EmptyStream == [][C6_EmptyStep]_vars

\* success iff no parameter is required, else the first required one is reported
C6_OriginalStep ==
    EmptyBinding =>
        IF \E i \in Params : RequiredAt(i)
        THEN err' = MissingRequired(FirstRequired)
        ELSE err' = None

\* C6 as stated: success iff every parameter is optional, and otherwise the
\* missing-required error for the first required parameter
C6_Original == [][C6_OriginalStep]_vars

\* e, for def e(u, w) with a fallback on u that u's validator refuses: the call
\* ends with that refusal, not with w reported missing
C6_Witness ==
    /\ route = R_bad
    /\ args = <<<<"e">>>>
    /\ pc = "done"
    /\ err # None
    /\ err.kind = "validation"
    /\ err.name = <<"u">>
    /\ parsed_dict = EmptyMap

\* the loop is over with a required parameter unbound
DrainedMissing == pc = "loop" /\ parts = <<>> /\ \E n \in UnboundNames : ArgOf(route[cur], n).required

\* the running call is the second call with the stream of a call that reported a
\* parameter missing, after the caller made that parameter optional; every
\* parameter of the route is optional by now and no fallback is refused
Retrying ==
    /\ pc = "loop"
    /\ prev # Unbound
    /\ \A i \in Params : ~RequiredAt(i) /\ ~BadFallbackAt(i)

\* a drained stream with a required parameter unbound, and the second call
C7_Step ==
    /\ DrainedMissing => (pc' = "done" /\ err' # None /\ ret' = None)
    /\ (Retrying /\ pc' = "done") => err' = None

\* C7: once the stream is drained the call succeeds only if no required
\* parameter is unbound; with one unbound it fails; and once the caller has made
\* the parameter reported missing optional, the same stream parsed again succeeds.
C7_OptionalTurnsIntoSuccess == [][C7_Step]_vars

-----------------------------------------------------------------------------
(* Routes and the empty stream *)

\* parse() of no token with one route, and a route called with no token
C8_EmptyStep ==
    /\ (pc = "idle" /\ pc' # "idle" /\ Len(route) = 1 /\ args' = <<>>) =>
          /\ pc' = "done"
          /\ err' = Exc("RequestHelpError", "usage", <<>>)
          /\ ret' = None
          /\ parsed_dict' = EmptyMap
    /\ (pc # "loop" /\ pc' = "loop" /\ parts' = <<>>) =>
          /\ Len(route) > 1
          /\ args' = <<route[cur'].name>>

\* C8: with exactly one route registered, parse of an empty stream never calls
\* the route, even if all its parameters are optional: it ends with the usage
\* outcome and returns None.  A route is called with no argument token only when
\* more than one route is registered and the stream is just the route's name.
C8_SingleRouteEmptyStream == [][C8_EmptyStep]_vars

\* def n(count=5) is the only route and parse gets no token
C8_Witness ==
    /\ route = R_one
    /\ \A i \in 1..Len(route[1].args) : ~route[1].args[i].required
    /\ args = <<>>
    /\ pc = "done"
    /\ err = Exc("RequestHelpError", "usage", <<>>)
    /\ ret = None

-----------------------------------------------------------------------------
(* Fallback and default *)

\* the parameters left unbound that have a fallback / a default and no fallback
HasFallback(n) == ArgOf(route[cur], n).fallback # None
DefaultOnly(n) == ~ArgOf(route[cur], n).required /\ ArgOf(route[cur], n).fallback = None

\* the Value Pipeline run on the fallback of the parameter named n
FallbackParsed(n) == ArgParse(ArgOf(route[cur], n), py, ArgOf(route[cur], n).fallback.v)

\* the end of the stream, for the parameters left unbound that have a fallback
C9_FallbackStep ==
    (pc = "loop" /\ parts = <<>>) =>
        /\ pc' = "done"
        /\ \A n \in UnboundNames :
              HasFallback(n) =>
                  IF err' = None
                  THEN /\ FallbackParsed(n).exc = None
                       /\ parsed_dict'[n] = FallbackParsed(n).v
                  ELSE n \notin DOMAIN parsed_dict' \/ parsed_dict'[n] = FallbackParsed(n).v
        /\ (\E n \in UnboundNames : HasFallback(n) /\ FallbackParsed(n).exc # None) => err' # None

\* def g(p=1, q=False) with the fallback '7' set on p after its default;
\* def h(m, n=2) with the fallback '7' set on n and then the default 3
C9_Examples ==
    /\ (route = R_opt /\ args = <<<<"g">>>> /\ pc = "done") =>
          (err = None /\ parsed_dict[<<"p">>] = VInt(7))
    /\ (route = R_opt /\ args = <<<<"h">>, <<"5">>>> /\ pc = "done") =>
          (err = None /\ parsed_dict[<<"n">>] = VInt(7))

\* C9: a parameter with a default and a fallback that the stream leaves unbound
\* resolves to what the pipeline makes of the fallback string, never to the raw
\* default, whichever of the two was set last; if the pipeline refuses the
\* fallback the call fails.
C9_FallbackBeforeDefault == [][C9_FallbackStep /\ C9_Examples]_vars

\* h 5: n, with default 3 set after its fallback '7', resolves to int('7')
C9_Witness ==
    /\ route = R_opt
    /\ ArgOf(route[2], <<"n">>).default = VInt(3)
    /\ ArgOf(route[2], <<"n">>).fallback = VStr(<<"7">>)
    /\ args = <<<<"h">>, <<"5">>>>
    /\ Succeeded
    /\ ret = Result(<<"h">>, <<VStr(<<"5">>), VInt(7)>>, EmptyMap)

\* the end of the stream, for the parameters left unbound that have a default only
C10_DefaultStep ==
    (pc = "loop" /\ parts = <<>>) =>
        /\ (err' = None) => \A n \in UnboundNames :
                               DefaultOnly(n) => parsed_dict'[n] = ArgOf(route[cur], n).default
        /\ (/\ \A n \in UnboundNames : DefaultOnly(n)
            /\ ~HoldsVarargs(route[cur])
            /\ ~HoldsKwargs(route[cur])) => err' = None

\* def d(r='zz') with d.r.validator = '[0-9]+' and d.r.min = 1
C10_Example ==
    (route = R_opt /\ args = <<<<"d">>>> /\ pc = "done") =>
        /\ err = None
        /\ ret = Result(<<"d">>, <<VStr(<<"z", "z">>)>>, EmptyMap)

\* C10: a parameter with a default and no fallback that the stream leaves unbound
\* resolves to exactly the stored default; no validator, adapter, split or
\* min/max is applied to it, so it never makes the call fail.
C10_DefaultVerbatim == [][C10_DefaultStep /\ C10_Example]_vars

\* d: the default 'zz', which the validator of r refuses, is returned as it is
C10_Witness ==
    /\ route = R_opt
    /\ ArgOf(route[3], <<"r">>).validator = VStr(PatDigits)
    /\ ReMatch(PatDigits, VStr(<<"z", "z">>)) = Returned(None)
    /\ args = <<<<"d">>>>
    /\ Succeeded
    /\ parsed_dict = (<<"r">> :> VStr(<<"z", "z">>))

-----------------------------------------------------------------------------
(* Calls in sequence *)

\* C11: the outcome of every parse call is determined by its own token stream and
\* the parameter table alone, never by the tokens of earlier calls: it is the
\* outcome of the same call on routes whose collectors hold nothing.
C11_FreshPerCall ==
    (pc = "done" /\ ~Reconfigured) =>
        [ret |-> ret, err |-> err] = Call(Fresh(route), py, args)

-----------------------------------------------------------------------------
(* Failures *)

\* C12: every call that ends in a failure returns None, never a result, and go()
\* does not invoke the target.
C12_FailureReturnsNone ==
    (pc = "done" /\ err # None) =>
        (ret = None /\ ~GoInvokes([ret |-> ret, err |-> err]))

-----------------------------------------------------------------------------
(* The value pipeline *)

\* a parameter with no validator, no split and no bounds
PlainArg(a) == ~Truthy(a.validator) /\ ~Truthy(a.split) /\ a.min = None /\ a.max = None

\* f2(f1(s)) for the adapters f1, f2 of a, f1(s) for a single one, s for none
Composed(a, s) ==
    CASE a.adapter = None        -> Returned(s)
      [] a.adapter.t = "callable" -> CallFn(a.adapter.v, s)
      [] Len(a.adapter.v) = 1     -> CallFn(a.adapter.v[1], s)
      [] Len(a.adapter.v) = 2     ->
            IF CallFn(a.adapter.v[1], s).ok
            THEN CallFn(a.adapter.v[2], CallFn(a.adapter.v[1], s).v)
            ELSE CallFn(a.adapter.v[1], s)

\* a positional token taken for a plain parameter whose adapters accept it
C13_AdapterStep ==
    (/\ Taking /\ IsPositional(Head(parts)) /\ UnboundNames # {}
     /\ PlainArg(EarliestUnbound)
     /\ Composed(EarliestUnbound, VStr(Head(parts))).ok) =>
        /\ pc' = "loop"
        /\ parsed_dict' = parsed_dict @@
              (EarliestUnbound.name :> Composed(EarliestUnbound, VStr(Head(parts))).v)

\* route_min(count) with count.adapter = [int, str]; def n(count=5), adapter int;
\* def a(x), no adapter
C13_Examples ==
    /\ (route = S_chain.route /\ args = <<<<"0", "5">>>> /\ pc = "done") =>
          (err = None /\ parsed_dict[n_count] = VStr(<<"5">>))
    /\ (route = R_one /\ args = <<<<"0">>>> /\ pc = "done") =>
          (err = None /\ parsed_dict[n_count] = VInt(0))
    /\ (route = R_ab /\ args = <<<<"a">>, <<"5">>>> /\ pc = "done") =>
          (err = None /\ parsed_dict[<<"x">>] = VStr(<<"5">>))

\* C13: a plain parameter (no validator, no split, no bounds) with the adapter chain
\* f1..fn is bound to fn(...f1(s)) for the raw string s, the adapters applied left
\* to right; a single callable is a chain of length one, and with no adapter the
\* parameter is bound to s itself.
C13_AdaptersLeftToRight == [][C13_AdapterStep /\ C13_Examples]_vars

\* '05' through [int, str] is '5'
C13_Witness ==
    /\ route = S_chain.route
    /\ args = <<<<"0", "5">>>>
    /\ Succeeded
    /\ ret = Result(<<"m">>, <<VStr(<<"5">>)>>, EmptyMap)

\* the validator of a raises on the segment p, does not match it, or returns a
\* falsy value
Refuses(a, p) == ~CallValidator(a, p).ok \/ ~Truthy(CallValidator(a, p).v)

\* the segments the string s is validated in, for the parameter a
Segments(a, s) == IF Truthy(a.split) THEN StrList(Split(s, a.split.v)) ELSE <<VStr(s)>>

\* the validator of a refuses a segment of s, the segments before it having
\* passed validator and adapters, and the number of segments being within bounds
RefusedAt(a, s, i) ==
    /\ Refuses(a, Segments(a, s)[i])
    /\ \A j \in 1..(i - 1) :
          ~Refuses(a, Segments(a, s)[j]) /\ Composed(a, Segments(a, s)[j]).ok
    /\ Truthy(a.split) =>
          /\ a.min # None => Len(Segments(a, s)) >= a.min.v
          /\ a.max # None => Len(Segments(a, s)) <= a.max.v

\* a positional token taken for a parameter whose validator refuses a segment of it
C14_ValidatorStep ==
    (/\ Taking /\ IsPositional(Head(parts)) /\ UnboundNames # {}
     /\ HasValidator(EarliestUnbound)
     /\ \E i \in 1..Len(Segments(EarliestUnbound, Head(parts))) :
           RefusedAt(EarliestUnbound, Head(parts), i)) =>
        /\ pc' = "done"
        /\ err' = Exc("ArgumentRejectedError", "validation", EarliestUnbound.name)
        /\ ret' = None
        /\ parsed_dict' = parsed_dict

\* C14: whenever the validator of a parameter (pattern, predicate or membership
\* set) raises, does not match or returns a falsy value on a segment, at whatever
\* position of a split value, the call fails with a validation failure and binds
\* no value.
C14_ValidatorRefuses == [][C14_ValidatorStep]_vars

\* the number of segments of s is below the min or above the max of a
TooFew(a, s) == a.min # None /\ Len(Segments(a, s)) < a.min.v
TooMany(a, s) == a.max # None /\ Len(Segments(a, s)) > a.max.v

\* every segment of s passes the validator and the adapters of a
Accepted(a, s) ==
    \A i \in 1..Len(Segments(a, s)) :
        /\ HasValidator(a) => ~Refuses(a, Segments(a, s)[i])
        /\ Composed(a, Segments(a, s)[i]).ok

\* a positional token taken for a split parameter
C15_SplitStep ==
    (/\ Taking /\ IsPositional(Head(parts)) /\ UnboundNames # {}
     /\ Truthy(EarliestUnbound.split)) =>
        /\ TooFew(EarliestUnbound, Head(parts)) =>
              /\ pc' = "done"
              /\ err' = Exc("ArgumentRejectedError", "min", EarliestUnbound.name)
              /\ parsed_dict' = parsed_dict
        /\ (~TooFew(EarliestUnbound, Head(parts)) /\ TooMany(EarliestUnbound, Head(parts))) =>
              /\ pc' = "done"
              /\ err' = Exc("ArgumentRejectedError", "max", EarliestUnbound.name)
              /\ parsed_dict' = parsed_dict
        /\ (/\ ~TooFew(EarliestUnbound, Head(parts)) /\ ~TooMany(EarliestUnbound, Head(parts))
            /\ Accepted(EarliestUnbound, Head(parts))) =>
              /\ pc' = "loop"
              /\ parsed_dict' = parsed_dict @@
                    (EarliestUnbound.name :>
                       VList([i \in 1..Len(Segments(EarliestUnbound, Head(parts))) |->
                                Composed(EarliestUnbound, Segments(EarliestUnbound, Head(parts))[i]).v]))

\* route_min(count) with count.split = ',', count.min = 2 and count.max = 3
C15_Examples ==
    /\ (route = S_split.route /\ args = <<<<"3", ",", "2", ",", "1">>>> /\ pc = "done") =>
          (err = None /\ parsed_dict[n_count] = VList(<<VInt(3), VInt(2), VInt(1)>>))
    /\ (route = S_split.route /\ args = <<<<"3">>>> /\ pc = "done") =>
          (err = Exc("ArgumentRejectedError", "min", n_count) /\ ret = None)
    /\ (route = S_split.route /\ args = <<<<"3", ",", "2", ",", "1", ",", "0">>>> /\ pc = "done") =>
          (err = Exc("ArgumentRejectedError", "max", n_count) /\ ret = None)

\* C15: for a split parameter min and max bound the number of segments, and are
\* checked before any validator or adapter runs, never against the values of the
\* segments; the value bound is the list of what validator and adapters make of
\* each segment.  With min = 2 and ',' the string '3,2,1' is accepted and '3' is not.
C15_BoundsOnSegmentCount == [][C15_SplitStep /\ C15_Examples]_vars

\* 'zz' for the split count: one segment is too few, and neither validator nor
\* adapter gets to refuse it
C15_Witness ==
    /\ route = S_split.route
    /\ args = <<<<"z", "z">>>>
    /\ pc = "done"
    /\ err = Exc("ArgumentRejectedError", "min", n_count)

\* min <= v <= max for the bounds of a that are set.  A string is above every
\* number in the ordering of Python 2 and has no order with one in Python 3.
IsNumber(v) == v.t \in {"int", "bool"}
AsNumber(v) == IF v.t = "int" THEN v.v ELSE IF v.v THEN 1 ELSE 0
Within(a, v) ==
    IF IsNumber(v)
    THEN /\ a.min # None => a.min.v <= AsNumber(v)
         /\ a.max # None => AsNumber(v) <= a.max.v
    ELSE py = 2 /\ a.max = None

\* a positional token that validator and adapters accept, taken for a parameter
\* with a bound and no split
C16_RangeStep ==
    (/\ Taking /\ IsPositional(Head(parts)) /\ UnboundNames # {}
     /\ ~Truthy(EarliestUnbound.split)
     /\ EarliestUnbound.min # None \/ EarliestUnbound.max # None
     /\ Accepted(EarliestUnbound, Head(parts))) =>
        IF Within(EarliestUnbound, Composed(EarliestUnbound, VStr(Head(parts))).v)
        THEN /\ pc' = "loop"
             /\ parsed_dict' = parsed_dict @@
                   (EarliestUnbound.name :> Composed(EarliestUnbound, VStr(Head(parts))).v)
        ELSE /\ pc' = "done"
             /\ ret' \in {None, Unbound}
             /\ IsNumber(Composed(EarliestUnbound, VStr(Head(parts))).v) =>
                   (err'.cls = "ArgumentRejectedError" /\ err'.kind \in {"min", "max"} /\ ret' = None)
             /\ parsed_dict' = parsed_dict

\* route_min(count) with count.adapter = [int], count.min = 1, count.max = 10
C16_Examples ==
    (route = S_min_int.route /\ Len(args) = 1 /\ pc = "done") =>
        /\ args[1] = <<"0">> => (err = Exc("ArgumentRejectedError", "min", n_count) /\ ret = None)
        /\ args[1] = <<"1">> => (err = None /\ parsed_dict[n_count] = VInt(1))
        /\ args[1] = <<"5">> => (err = None /\ parsed_dict[n_count] = VInt(5))
        /\ args[1] = <<"1", "0">> => (err = None /\ parsed_dict[n_count] = VInt(10))
        /\ args[1] = <<"1", "1">> => (err = Exc("ArgumentRejectedError", "max", n_count) /\ ret = None)

\* C16: for a parameter without split, min and max are checked against the
\* adapted value and include their ends: the value is bound iff min <= value <= max.
\* With the adapter int, min = 1 and max = 10, '0' fails, '5' gives 5, and '1' and
\* '10' are accepted.
C16_InclusiveBounds == [][C16_RangeStep /\ C16_Examples]_vars

\* '10' for count with max = 10
C16_Witness ==
    /\ route = S_min_int.route
    /\ args = <<<<"1", "0">>>>
    /\ Succeeded
    /\ ret = Result(<<"m">>, <<VInt(10)>>, EmptyMap)

-----------------------------------------------------------------------------
(* The collectors *)

\* the values bound to the declared parameters, in declaration order
DeclaredValues(rt, pd) == [i \in 1..Len(rt.args) |-> pd[rt.args[i].name]]

\* a positional token taken when no declared parameter is left over
C17_SurplusStep ==
    (Taking /\ IsPositional(Head(parts)) /\ leftover = <<>>) =>
        IF route[cur].varargs = None
        THEN /\ pc' = "done"
             /\ err' = Exc("ArgumentRejectedError", "no_vararg", Head(parts))
             /\ ret' = None
             /\ parsed_dict' = parsed_dict
        ELSE /\ pc' = "loop"
             /\ parts' = Tail(parts)
             /\ route'[cur].varargs.held = Append(route[cur].varargs.held, Head(parts))
             /\ route'[cur].kwargs = route[cur].kwargs
             /\ parsed_dict' = parsed_dict

\* the end of a call that succeeds on a route with a vararg collector
C17_ResultStep ==
    (pc = "loop" /\ parts = <<>> /\ route[cur].varargs # None /\ err' = None) =>
        ret'.arglist = DeclaredValues(route[cur], parsed_dict')
                         \o StrList(route[cur].varargs.held)

\* C17: a positional token taken when no declared parameter is left over is
\* appended to the vararg collector of the route, which keeps the arrival order
\* and comes after the declared values in the result; on a route without vararg
\* collector the call fails with the unexpected-positional error.
C17_SurplusPositional == [][C17_SurplusStep /\ C17_ResultStep]_vars

\* 5 k 5 on def k(x, *rest, **kw), the only route: x = '5', rest = ('k', '5')
C17_Witness ==
    /\ route[1].name = <<"k">>
    /\ args = <<<<"5">>, <<"k">>, <<"5">>>>
    /\ Succeeded
    /\ ret = Result(<<"k">>, <<VStr(<<"5">>), VStr(<<"k">>), VStr(<<"5">>)>>, EmptyMap)

\* a --name token taken whose name is not a declared parameter of the route
C18_UndeclaredStep ==
    (/\ Taking /\ IsNamed(Head(parts)) /\ NameIn(Head(parts)) # <<>>
     /\ NameIn(Head(parts)) \notin NameSet(route[cur])) =>
        /\ parsed_dict' = parsed_dict
        /\ route'[cur].varargs = route[cur].varargs
        /\ CASE route[cur].kwargs = None ->
                  /\ pc' = "done"
                  /\ err' = Exc("ArgumentRejectedError", "unsupported_name", NameIn(Head(parts)))
                  /\ ret' = None
             [] route[cur].kwargs # None /\ Tail(parts) = <<>> ->
                  /\ pc' = "done"
                  /\ err' = Exc("ArgumentMissingError", "missing_kwarg_value", NameIn(Head(parts)))
                  /\ ret' = None
                  /\ route'[cur].kwargs = route[cur].kwargs
             [] /\ route[cur].kwargs # None /\ Tail(parts) # <<>>
                /\ NameIn(Head(parts)) \in DOMAIN route[cur].kwargs.held ->
                  /\ pc' = "done"
                  /\ err' = Exc("ArgumentRejectedError", "kwarg_exists", NameIn(Head(parts)))
                  /\ ret' = None
                  /\ route'[cur].kwargs = route[cur].kwargs
             [] OTHER ->
                  /\ pc' = "loop"
                  /\ parts' = Tail(Tail(parts))
                  /\ route'[cur].kwargs.held =
                        route[cur].kwargs.held @@ (NameIn(Head(parts)) :> parts[2])

\* C18: a --name token whose name is not declared fails with the
\* unsupported-argument error on a route without kwarg collector; with one, the
\* next token is consumed as its value (missing-value error if there is none) and
\* stored under the name, and a --name for a name the collector holds already
\* fails and leaves the stored value as it is.
C18_UndeclaredName == [][C18_UndeclaredStep]_vars

\* --o 5 --o 5 on def k(x, *rest, **kw): the first --o is collected and the
\* second one, in the same list, fails
C18_Witness ==
    /\ route[1].name = <<"k">>
    /\ args = <<DDash(<<"o">>), <<"5">>, DDash(<<"o">>), <<"5">>>>
    /\ pc = "done"
    /\ parts = <<>>
    /\ err = Exc("ArgumentRejectedError", "kwarg_exists", <<"o">>)
    /\ route[1].kwargs.held = (<<"o">> :> <<"5">>)

-----------------------------------------------------------------------------
(* Named values *)

\* a --name token taken for a declared parameter that holds no value yet
C19_NamedStep ==
    (Taking /\ IsNamed(Head(parts)) /\ NameIn(Head(parts)) \in UnboundNames) =>
        IF Tail(parts) = <<>>
        THEN /\ pc' = "done"
             /\ err' = Exc("ArgumentMissingError", "missing_value", NameIn(Head(parts)))
             /\ ret' = None
             /\ parsed_dict' = parsed_dict
        ELSE IF ArgParse(ArgOf(route[cur], NameIn(Head(parts))), py, parts[2]).exc = None
        THEN /\ pc' = "loop"
             /\ parts' = Tail(Tail(parts))
             /\ parsed_dict' = parsed_dict @@
                   (NameIn(Head(parts)) :>
                      ArgParse(ArgOf(route[cur], NameIn(Head(parts))), py, parts[2]).v)
        ELSE /\ pc' = "done"
             /\ parts' = Tail(Tail(parts))
             /\ err' = Handled(ArgParse(ArgOf(route[cur], NameIn(Head(parts))), py, parts[2]).exc)
             /\ parsed_dict' = parsed_dict

\* C19: a --name token for a declared parameter that is still unbound fails with
\* the missing-value error when it is the last token of the stream; otherwise
\* exactly one token, the one that follows it, is consumed and run through the
\* pipeline of the parameter.
C19_NamedTakesOneValue == [][C19_NamedStep]_vars

\* b --y --z on def b(y, z=1): --z is the value of y, whatever it looks like, and z
\* resolves to its default
C19_Witness ==
    /\ route = R_ab
    /\ args = <<<<"b">>, DDash(<<"y">>), DDash(<<"z">>)>>
    /\ Succeeded
    /\ ret = Result(<<"b">>, <<VStr(DDash(<<"z">>)), VInt(1)>>, EmptyMap)

-----------------------------------------------------------------------------
(* Route selection *)

\* parse() is entered with a list whose first token is no help option
Selecting ==
    /\ \/ pc = "idle" /\ pc' # "idle"
       \/ pc = "done" /\ pc' = "loop"
    /\ args' # <<>>
    /\ Lower(args'[1]) \notin HELP_OPTIONS

\* the route chosen and the tokens handed to it
C20_SelectionStep ==
    Selecting =>
        /\ parsed_dict' = EmptyMap
        /\ route' = route
        /\ CASE Len(route) = 1 ->
                  /\ pc' = "loop"
                  /\ cur' = 1
                  /\ parts' = args'
             [] Len(route) > 1 /\ args'[1] \in RouteNames(route) ->
                  /\ pc' = "loop"
                  /\ route[cur'].name = args'[1]
                  /\ parts' = Tail(args')
             [] OTHER ->
                  /\ pc' = "done"
                  /\ err' = Exc("MissingRouteError", "route", args'[1])
                  /\ ret' = None

\* def a(x) and def b(y, z=1): c names no route
C20_Example ==
    (route = R_ab /\ args # <<>> /\ args[1] = <<"c">> /\ pc # "idle") =>
        (pc = "done" /\ err = Exc("MissingRouteError", "route", <<"c">>) /\ ret = None)

\* C20: with one route registered the first token is never taken as a route
\* selector: the route is handed the whole stream, the first token included even
\* if it is the name of the route.  With more routes the first token (no help
\* option) must be the name of a route: the route of that name is handed exactly
\* the tokens after it, and any other first token fails with the missing-route
\* error and binds nothing.
C20_RouteSelection == [][C20_SelectionStep /\ C20_Example]_vars

\* k 5 on def k(x, *rest, **kw), the only route: x = 'k'
C20_Witness ==
    /\ Len(route) = 1
    /\ route[1].name = <<"k">>
    /\ args = <<<<"k">>, <<"5">>>>
    /\ Succeeded
    /\ ret = Result(<<"k">>, <<VStr(<<"k">>), VStr(<<"5">>)>>, EmptyMap)

-----------------------------------------------------------------------------
(* Two routes *)

\* C21: with the routes a(x) and b(y, z=1) registered and nothing configured, the
\* tokens b 5 select b and give (['5', 1], {}): y has no declared default, hence no
\* adapter, and is bound to the string; z resolves to its default.
C21_TwoRoutes ==
    (route = R_ab /\ args = <<<<"b">>, <<"5">>>> /\ pc = "done") =>
        /\ err = None
        /\ cur = 2
        /\ ret = Result(<<"b">>, <<VStr(<<"5">>), VInt(1)>>, EmptyMap)

\* C21 as stated: the tokens b 5 give ([5, 1], {}), y being the integer 5.
C21_Original ==
    (route = R_ab /\ args = <<<<"b">>, <<"5">>>> /\ pc = "done") =>
        /\ err = None
        /\ ret = Result(<<"b">>, <<VInt(5), VInt(1)>>, EmptyMap)

\* b 5 has been parsed
C21_Witness ==
    /\ route = R_ab
    /\ args = <<<<"b">>, <<"5">>>>
    /\ Succeeded
    /\ parsed_dict = (<<"y">> :> VStr(<<"5">>)) @@ (<<"z">> :> VInt(1))

-----------------------------------------------------------------------------
(* The parameter table *)

\* declared defaults: None, booleans, an integer, a string and a list
DeclaredDefaults ==
    {None, VBool(FALSE), VBool(TRUE), VInt(1), VStr(<<"z", "z">>), VList(<<>>)}

\* the signatures f(p, q) with the last 0, 1 or 2 parameters given a default
Signatures == UNION {[1..n -> DeclaredDefaults] : n \in 0..2}

\* the parameter arg, built for the i-th of the two parameters of a signature whose
\* declared defaults are defaults, is as its declaration says
AsDeclared(arg, defaults, i) ==
    /\ arg.required <=> (i <= 2 - Len(defaults))
    /\ arg.fallback = None /\ arg.validator = None /\ arg.split = None
    /\ arg.min = None /\ arg.max = None
    /\ IF i <= 2 - Len(defaults)
       THEN ~arg.isswitch /\ arg.adapter = None /\ arg.default = None
       ELSE /\ arg.default = defaults[i - (2 - Len(defaults))]
            /\ arg.isswitch <=> (arg.default.t = "bool")
            /\ arg.adapter = IF arg.default.t \in {"bool", "str", "int"}
                             THEN Callable(arg.default.t) ELSE None

\* C22: in the table built from a signature a parameter is required iff it has
\* no declared default; a parameter with a boolean default is a switch whose
\* stored default is that boolean; a parameter whose default is of an allow-listed
\* type (bool, str, int here) has that type as its adapter; every other parameter
\* is plain and has no adapter.
C22_TableFromSignature ==
    (pc = "idle") =>
        /\ \A defaults \in Signatures : \A i \in 1..2 :
              AsDeclared(RouteInit(<<"f">>, <<<<"p">>, <<"q">>>>, defaults, None, None).args[i],
                         defaults, i)
        /\ (route = R_switch) =>
              /\ AsDeclared(route[1].args[1], <<VBool(FALSE)>>, 1)
              /\ AsDeclared(route[1].args[2], <<VBool(FALSE)>>, 2)
        /\ (route = R_ab) =>
              /\ AsDeclared(route[2].args[1], <<VInt(1)>>, 1)
              /\ AsDeclared(route[2].args[2], <<VInt(1)>>, 2)

\* def func(path, verbose=False) is registered: path is required and plain, verbose
\* is an optional switch with the default False and the adapter bool
C22_Witness ==
    /\ pc = "idle"
    /\ route = R_switch
    /\ route[1].args[1].required /\ route[1].args[1].adapter = None
    /\ ~route[1].args[2].required /\ route[1].args[2].isswitch
    /\ route[1].args[2].default = VBool(FALSE)
    /\ route[1].args[2].adapter = Callable("bool")

-----------------------------------------------------------------------------
(* The pipeline of the collectors *)

\* the list and the map the collectors of the route rt hold, as single values
WholeList(rt) == VList(StrList(rt.varargs.held))
WholeMap(rt) == VDict([n \in DOMAIN rt.kwargs.held |-> VStr(rt.kwargs.held[n])])

\* the validator of a, if it has one, accepts x, and so do its adapters
Passes(a, x) == (HasValidator(a) => ~Refuses(a, x)) /\ Composed(a, x).ok

\* the end of a call that succeeds on a route whose collectors hold entries
C23_CollectorStep ==
    (pc = "loop" /\ parts = <<>> /\ err' = None) =>
        /\ HoldsVarargs(route[cur]) =>
              /\ Passes(route[cur].varargs.arg, WholeList(route[cur]))
              /\ ret'.arglist =
                    DeclaredValues(route[cur], parsed_dict')
                      \o Composed(route[cur].varargs.arg, WholeList(route[cur])).v.v
        /\ HoldsKwargs(route[cur]) =>
              /\ Passes(route[cur].kwargs.arg, WholeMap(route[cur]))
              /\ ret'.argkw = Composed(route[cur].kwargs.arg, WholeMap(route[cur])).v.v

\* def c(*rest, **kw) with validator len, adapter list (dict for kw), split ',' and
\* a bound on both collectors: the empty string would not pass len by itself, '3,2'
\* is not split, and neither min = 5 nor max = 0 is looked at
C23_Example ==
    (/\ route[1].name = <<"c">> /\ Succeeded
     /\ args = <<<<>>, DDash(<<"o">>), <<"3", ",", "2">>>>
     /\ route[1].varargs.held = <<<<>>>>) =>
        ret = Result(<<"c">>, <<VStr(<<>>)>>, (<<"o">> :> VStr(<<"3", ",", "2">>)))

\* C23: when a collector holds entries at the end of the stream, its validator
\* and its adapter chain are called once each on the whole list (vararg) or map
\* (kwarg), never on the entries one by one, and neither split nor min/max is
\* applied to the collection.
C23_CollectorsParsedWhole == [][C23_CollectorStep /\ C23_Example]_vars

\* '' --o 3,2 on def c(*rest, **kw)
C23_Witness ==
    /\ route[1].name = <<"c">>
    /\ route[1].varargs.arg.validator = Callable("len")
    /\ route[1].varargs.arg.split = VStr(<<",">>)
    /\ args = <<<<>>, DDash(<<"o">>), <<"3", ",", "2">>>>
    /\ Succeeded
    /\ ret = Result(<<"c">>, <<VStr(<<>>)>>, (<<"o">> :> VStr(<<"3", ",", "2">>)))

\* the validator of a returns a falsy value on the segment p, without raising
Declines(a, p) == CallValidator(a, p).ok /\ ~Truthy(CallValidator(a, p).v)

\* the segment p passes the validator of a and the adapter chain of a
Clears(a, p) == ~Refuses(a, p) /\ Composed(a, p).ok

\* the first segment of s that the validator of a refuses or an adapter of a fails on
FirstFailing(a, s) ==
    CHOOSE i \in 1..Len(Segments(a, s)) :
        /\ ~Clears(a, Segments(a, s)[i])
        /\ \A j \in 1..(i - 1) : Clears(a, Segments(a, s)[j])

\* a positional token taken for a split parameter with a validator and no bounds,
\* one segment of the token failing
SplitFailing ==
    /\ Taking /\ IsPositional(Head(parts)) /\ UnboundNames # {}
    /\ HasValidator(EarliestUnbound) /\ Truthy(EarliestUnbound.split)
    /\ EarliestUnbound.min = None /\ EarliestUnbound.max = None
    /\ \E i \in 1..Len(Segments(EarliestUnbound, Head(parts))) :
          ~Clears(EarliestUnbound, Segments(EarliestUnbound, Head(parts))[i])

\* the first failing segment decides: declined by the validator, the call fails
\* with a validation failure whatever the adapters would do with it; accepted by
\* the validator, the call fails on the adapter, whatever the validator would
\* say of the later segments
C24_OrderStep ==
    SplitFailing =>
        /\ pc' = "done" /\ ret' \in {None, Unbound} /\ parsed_dict' = parsed_dict
        /\ Declines(EarliestUnbound,
                    Segments(EarliestUnbound, Head(parts))[FirstFailing(EarliestUnbound, Head(parts))])
              => err' = Exc("ArgumentRejectedError", "validation", EarliestUnbound.name)
        /\ ~Refuses(EarliestUnbound,
                    Segments(EarliestUnbound, Head(parts))[FirstFailing(EarliestUnbound, Head(parts))])
              => err' = IF py = 3 THEN Exc("AttributeError", "message", EarliestUnbound.name)
                        ELSE Exc("ArgumentRejectedError", "adapter", EarliestUnbound.name)

AdapterFailsAt(a, s, i) ==
    /\ HasValidator(a) => ~Refuses(a, Segments(a, s)[i])
    /\ ~Composed(a, Segments(a, s)[i]).ok
    /\ \A j \in 1..(i - 1) :
          (HasValidator(a) => ~Refuses(a, Segments(a, s)[j])) /\ Composed(a, Segments(a, s)[j]).ok
    /\ Truthy(a.split) =>
          /\ a.min # None => Len(Segments(a, s)) >= a.min.v
          /\ a.max # None => Len(Segments(a, s)) <= a.max.v

\* a positional token taken for a parameter one of whose adapters raises on a
\* segment of it
C25_AdapterStep ==
    (/\ Taking /\ IsPositional(Head(parts)) /\ UnboundNames # {}
     /\ \E i \in 1..Len(Segments(EarliestUnbound, Head(parts))) :
           AdapterFailsAt(EarliestUnbound, Head(parts), i)) =>
        /\ pc' = "done"
        /\ err' = Exc("ArgumentRejectedError", "adapter", EarliestUnbound.name)
        /\ ret' = None
        /\ parsed_dict' = parsed_dict

\* C25: whenever a stage of the adapter chain of a parameter raises on a segment,
\* the call fails with an adaptation failure for that parameter, no later stage or
\* segment is processed and the parameter is bound to no value.
C25_AdapterRaises == [][C25_AdapterStep]_vars

-----------------------------------------------------------------------------
(* Bounds of 0 *)

\* What the bounds of a make of the string s, which validator and adapters
\* accept, errn being the error of the call after the step that parsed it: a
\* bound of 0 is a bound like any other, and only a bound left unset is skipped.
ZeroBounds(a, s, errn) ==
    IF Truthy(a.split)
    THEN /\ a.max = VInt(0) => errn = Exc("ArgumentRejectedError", "max", a.name)
         /\ (a.max = None /\ (a.min = None \/ a.min = VInt(0))) => errn = None
    ELSE IsNumber(Composed(a, VStr(s)).v) =>
         /\ (a.min = VInt(0) /\ AsNumber(Composed(a, VStr(s)).v) < 0)
               => errn = Exc("ArgumentRejectedError", "min", a.name)
         /\ (a.max = VInt(0) /\ AsNumber(Composed(a, VStr(s)).v) > 0)
               => errn = Exc("ArgumentRejectedError", "max", a.name)
         /\ (a.min = None /\ AsNumber(Composed(a, VStr(s)).v) < 0
                /\ (a.max = None \/ a.max = VInt(0)))
               => errn = None
         /\ (a.max = None /\ AsNumber(Composed(a, VStr(s)).v) > 0
                /\ (a.min = None \/ a.min = VInt(0)))
               => errn = None

\* a value taken for a declared parameter, by position or after its --name
C26_ZeroStep ==
    /\ (/\ Taking /\ IsPositional(Head(parts)) /\ UnboundNames # {}
        /\ Accepted(EarliestUnbound, Head(parts)))
          => ZeroBounds(EarliestUnbound, Head(parts), err')
    /\ (/\ Taking /\ IsNamed(Head(parts)) /\ NameIn(Head(parts)) \in UnboundNames
        /\ Tail(parts) # <<>>
        /\ ~ArgOf(route[cur], NameIn(Head(parts))).isswitch
        /\ Accepted(ArgOf(route[cur], NameIn(Head(parts))), parts[2]))
          => ZeroBounds(ArgOf(route[cur], NameIn(Head(parts))), parts[2], err')

\* route_min(count) with count.adapter = [int], count.min = 0, count.max = 0, and
\* with count.split = ',', count.max = 0
C26_Examples ==
    /\ (route = S_zero.route /\ pc = "done" /\ args = <<DDash(n_count), <<"-", "1">>>>)
          => (err = Exc("ArgumentRejectedError", "min", n_count) /\ ret = None)
    /\ (route = S_zero.route /\ pc = "done" /\ args = <<<<"5">>>>)
          => (err = Exc("ArgumentRejectedError", "max", n_count) /\ ret = None)
    /\ (route = S_zero.route /\ pc = "done" /\ args = <<<<"0">>>>)
          => (err = None /\ ret = Result(<<"m">>, <<VInt(0)>>, EmptyMap))
    /\ (route = S_zero_split.route /\ pc = "done" /\ Len(args) = 1)
          => (err = Exc("ArgumentRejectedError", "max", n_count) /\ ret = None)

\* C26: a bound equal to 0 is a bound that is set.  min = 0 rejects an adapted value
\* below 0 and max = 0 one above 0; on a split parameter max = 0 rejects every
\* value, the list of segments never being empty.  A bound is skipped only when
\* it is unset.
C26_ZeroIsABound == [][C26_ZeroStep /\ C26_Examples]_vars

\* --count -1 with count.min = 0: -1 is rejected for being below the minimum
C26_Witness ==
    /\ route = S_zero.route /\ args = <<DDash(n_count), <<"-", "1">>>> /\ pc = "done"
    /\ err = Exc("ArgumentRejectedError", "min", n_count) /\ ret = None

-----------------------------------------------------------------------------
(* The positional list of the result *)

\* the values the vararg collector of rt holds
VarargValues(rt) == IF rt.varargs = None THEN <<>> ELSE StrList(rt.varargs.held)

\* the result of a successful call on the route rt with the bindings pd
InDeclarationOrder(rt, pd, arglist) ==
    /\ DOMAIN pd = NameSet(rt)
    /\ Len(arglist) = Len(rt.args) + Len(VarargValues(rt))
    /\ \A i \in 1..Len(rt.args) : arglist[i] = pd[rt.args[i].name]
    /\ \A j \in 1..Len(VarargValues(rt)) : arglist[Len(rt.args) + j] = VarargValues(rt)[j]

\* def func(path, verbose=False): the switch bound before path, path bound by
\* name, and verbose left to its default
C27_Examples ==
    (route = R_switch /\ pc = "done") =>
        /\ args = <<Dash(n_verbose), input_txt>>
              => ret = Result(<<"f">>, <<VStr(input_txt), VBool(TRUE)>>, EmptyMap)
        /\ args = <<Dash(n_verbose), DDash(n_path), input_txt>>
              => ret = Result(<<"f">>, <<VStr(input_txt), VBool(TRUE)>>, EmptyMap)
        /\ args = <<DDash(n_path), input_txt>>
              => ret = Result(<<"f">>, <<VStr(input_txt), VBool(FALSE)>>, EmptyMap)

\* C27: on every successful call the positional list of the result holds one value
\* for each declared parameter of the route, at the index of its declaration,
\* whatever the order the parameters were bound in (by position, --name, -switch,
\* fallback or default), followed by the values of the vararg collector; its length
\* is the number of declared parameters plus the number of vararg values.
C27_DeclarationOrder ==
    /\ Succeeded => InDeclarationOrder(route[cur], parsed_dict, ret.arglist)
    /\ C27_Examples

\* -verbose input.txt on def func(path, verbose=False): verbose is bound first and
\* comes second
C27_Witness ==
    /\ route = R_switch /\ args = <<Dash(n_verbose), input_txt>> /\ Succeeded
    /\ ret.arglist = <<VStr(input_txt), VBool(TRUE)>>

-----------------------------------------------------------------------------
(* Termination *)

\* the tokens a loop iteration that goes on has removed: the token itself, and
\* the value that follows a --name
Removed(p) == IF IsNamed(p) THEN 2 ELSE 1

\* one step of a running call: an iteration removes one or two tokens from the
\* stream, however it ends, and with the stream empty the call ends
C28_LoopStep ==
    /\ pc = "loop" => Len(parts) <= Len(args)
    /\ Taking =>
          /\ Len(parts) - Len(parts') \in {1, 2}
          /\ pc' = "loop" => Len(parts') = Len(parts) - Removed(Head(parts))
          /\ pc' \in {"loop", "done"}
    /\ (pc = "loop" /\ parts = <<>>) => pc' = "done"

\* C28: a call always terminates.  Every iteration of the loop removes at least one
\* token from the stream (one for a positional or a switch token, two for a --name
\* token and its value), the stream is never longer than the list the caller
\* gave, and the loop is left when the stream is empty: a call that entered the
\* loop ends, after at most as many iterations as there were tokens.
C28_Terminates == [][C28_LoopStep]_vars /\ (pc = "loop" ~> pc = "done")

\* a call of three tokens that went through the loop to its end
C28_Witness ==
    /\ route = R_switch /\ args = <<Dash(n_verbose), DDash(n_path), input_txt>>
    /\ pc = "done" /\ parts = <<>> /\ err = None

-----------------------------------------------------------------------------
(* Bound once *)

\* the names in leftover
LeftoverNames == {leftover[i] : i \in 1..Len(leftover)}

\* in a running call every declared parameter is either in leftover, once, or
\* bound in parsed_dict, and never both
C29_Partition ==
    pc = "loop" =>
        /\ Cardinality(LeftoverNames) = Len(leftover)
        /\ LeftoverNames \cap DOMAIN parsed_dict = {}
        /\ LeftoverNames \cup DOMAIN parsed_dict = NameSet(route[cur])

\* a step of a running call takes names out of leftover and puts none back, and
\* leaves what is bound as it is
C29_StoreStep ==
    pc = "loop" =>
        /\ pc' = "loop" => \A n \in LeftoverNames :
                               n \notin {leftover'[i] : i \in 1..Len(leftover')}
                                  <=> n \in DOMAIN parsed_dict'
        /\ \A n \in DOMAIN parsed_dict :
              n \in DOMAIN parsed_dict' /\ parsed_dict'[n] = parsed_dict[n]

\* C29: while a call runs, each declared parameter is either still in leftover or
\* was removed from it once, and is then bound; a name is stored into parsed_dict
\* at most once, a stored value never being replaced; and the assertion that a
\* name is not in parsed_dict before it is stored never fails.
C29_BoundOnce ==
    /\ [](C29_Partition /\ (err # None => err.cls # "AssertionError"))
    /\ [][C29_StoreStep]_vars

\* --path input.txt -verbose on def func(path, verbose=False): both parameters
\* were taken out of leftover by name and bound
C29_Witness ==
    /\ route = R_switch /\ args = <<DDash(n_path), input_txt, Dash(n_verbose)>>
    /\ pc = "loop" /\ parts = <<>> /\ leftover = <<>>
    /\ parsed_dict = (n_path :> VStr(input_txt)) @@ (n_verbose :> VBool(TRUE))

-----------------------------------------------------------------------------
(* Tokens that begin with a dash *)

\* the value the token p binds the declared parameter it names to: the switch
\* value for -name, the parsed next token for --name
BoundByName(p) ==
    IF IsSwitch(p) THEN SwitchValue(ArgOf(route[cur], NameIn(p)))
    ELSE ArgParse(ArgOf(route[cur], NameIn(p)), py, parts[2]).v

\* a token that begins with a dash is taken by the loop
C30_DashStep ==
    (Taking /\ ~IsPositional(Head(parts))) =>
        /\ route'[cur].varargs = route[cur].varargs
        /\ NameIn(Head(parts)) = <<>> =>
              /\ pc' = "done" /\ ret' = None /\ parsed_dict' = parsed_dict
              /\ err' = Exc("ArgumentRejectedError", "dash_positional", Head(parts))
        /\ \A n \in DOMAIN parsed_dict' \ DOMAIN parsed_dict :
              /\ n = NameIn(Head(parts))
              /\ parsed_dict'[n] = BoundByName(Head(parts))

\* def n(count=5), count adapted by int: -1 alone is refused, and is the value of
\* count after --count
C30_Examples ==
    (route = R_one /\ pc = "done") =>
        /\ args = <<<<"-", "1">>>> => (err # None /\ ret = None)
        /\ args = <<DDash(n_count), <<"-", "1">>>>
              => ret = Result(<<"n">>, <<VInt(0 - 1)>>, EmptyMap)

\* C30: a token that begins with a dash is never bound by position, to a declared
\* parameter or to the vararg collector: it is read as a name (--x) or as a switch
\* (-x), a bare - or -- being rejected, and it is taken as a value only when it is
\* the token that follows a --name.  With def n(count=5), -1 alone fails and
\* --count -1 binds count to -1.
C30_DashNeverPositional == [][C30_DashStep /\ C30_Examples]_vars

\* a bare -- was met in the stream
C30_BareDashes ==
    /\ pc = "done" /\ args = <<<<"-", "-">>>>
    /\ err = Exc("ArgumentRejectedError", "dash_positional", <<"-", "-">>)

\* --count -1 on def n(count=5)
C30_Witness ==
    /\ route = R_one /\ args = <<DDash(n_count), <<"-", "1">>>> /\ Succeeded
    /\ parsed_dict = (n_count :> VInt(0 - 1))

-----------------------------------------------------------------------------
(* The names of the kwarg collector *)

\* the names the kwarg collector of rt holds
KwargNames(rt) == IF rt.kwargs = None THEN {} ELSE DOMAIN rt.kwargs.held

\* C31: in every reachable state the names held by the kwarg collector of a route
\* are disjoint from the names of its declared parameters, whatever calls came
\* before: the keyword map of a result never holds the name of a declared
\* parameter, and no call ends with the failure of the final assembly for a kwarg
\* that shadows a declared parameter.
C31_KwargNamesDisjoint ==
    /\ \A i \in 1..Len(route) : KwargNames(route[i]) \cap NameSet(route[i]) = {}
    /\ Succeeded => DOMAIN ret.argkw \cap NameSet(route[cur]) = {}
    /\ err # None => ~(err.cls = "ArgzError" /\ err.kind = "shadow")

\* 5 --o 5 on def k(x, *rest, **kw): x is bound and o is collected
C31_Witness ==
    /\ route[1].name = <<"k">>
    /\ args = <<<<"5">>, DDash(<<"o">>), <<"5">>>>
    /\ Succeeded
    /\ ret.argkw = (<<"o">> :> VStr(<<"5">>))
    /\ parsed_dict = (<<"x">> :> VStr(<<"5">>))

-----------------------------------------------------------------------------
(* What a failed call leaves behind *)

\* the running call after the step, as a Frame
RunningNext == [rt |-> route'[cur], parts |-> parts', leftover |-> leftover',
                parsed_dict |-> parsed_dict', exc |-> None]

\* a step of a running call that changes the route (a collector took a token)
\* belongs to a call that does not fail
C32_CollectStep ==
    (pc = "loop" /\ route' # route) =>
        /\ pc' = "loop"
        /\ Ended(RunLoop(RunningNext, py), py).err = None

\* C32: a call that fails leaves the route as it was before the call: no vararg
\* token and no kwarg entry collected by a call that goes on to fail is kept, so
\* that the call that follows behaves as if the failed one had not been made.
C32_FailureLeavesNoTrace == [][C32_CollectStep]_vars

-----------------------------------------------------------------------------
(* What a call leaves alone *)

\* the Parameter Tables of the routes: their parameters in order, each with its
\* kind, required flag, default, fallback, validator, adapter, split, min and
\* max, and the parameters of the collectors, without what the collectors hold
Tables(targets) == Fresh(targets)

\* a step of parse(): the call is entered, it runs, or it is made again with the
\* same list
C33_CallStep ==
    /\ (pc = "idle" /\ pc' # "idle") =>
          /\ Tables(route') = Tables(route)
          /\ pc' = "loop" => parts' = IF Len(route) = 1 THEN args' ELSE Tail(args')
    /\ pc = "loop" =>
          /\ Tables(route') = Tables(route)
          /\ args' = args
    /\ (pc = "done" /\ pc' # "idle" /\ prev' = prev) =>
          /\ Tables(route') = Tables(route)
          /\ args' = args

\* C33: a call of parse(), whether it succeeds or fails, changes neither the
\* Parameter Table of any route (the parameters, their order, and the kind,
\* required flag, default, fallback, validator, adapter, split, min and max of
\* each) nor the list of tokens the caller gave: the loop consumes parts and
\* leftover, which are copies.
C33_TableAndTokensUnchanged == [][C33_CallStep]_vars

\* input.txt -verbose on def func(path, verbose=False): the call is over, parts and
\* leftover are used up, and the list of the caller and the table are whole
C33_Witness ==
    /\ route = R_switch /\ args = <<input_txt, Dash(n_verbose)>> /\ Succeeded
    /\ parts = <<>> /\ leftover = <<>>
    /\ Names(route[1]) = <<n_path, n_verbose>>
=============================================================================
